---- MODULE Spec2Model ----
(***************************************************************************)
(* Room / chat subsystem of the beer tally server (src/server_backup.mjs)  *)
(* over the relational schema of src/init-db.sql: the socket handlers, the *)
(* HTTP routes that create and join rooms, the migration of the default    *)
(* room and the query functions, getLeaderboard among them; and the beer   *)
(* tally routes /setname, /add and /remove of src/server.mjs over the same *)
(* users and beer_entries tables.                                          *)
(*                                                                         *)
(* The server is a single-threaded event loop.  Every handler runs to its  *)
(* next await; an action of this module is one database query of a handler *)
(* together with the synchronous code that follows it up to the next       *)
(* await.  A query may fail (connection loss): the action then takes the   *)
(* handler's catch branch, or abandons the handler where there is none.    *)
(***************************************************************************)
EXTENDS Integers, Sequences, FiniteSets, TLC

----------------------------------------------------------------------------
(* Bounds of the model *)

\* requests of the clients in a run: join-room, send-message, closing a socket
MaxRequests == 3

\* database queries that fail in a run
MaxFailures == 1

\* rows of a message table that is given to the query functions
MaxRows == 3

\* rows of a beer table that is given to the leaderboard and the tally routes
MaxBeers == 2

\* the live connections (socket ids) and the browser sessions
Conns == {"c1", "c2"}

Sessions == {"s1", "s2", "s3"}

\* socket ids are handed out in this order
Before(b, c) == b = "c1" /\ c = "c2"

----------------------------------------------------------------------------
(* Strings *)

Lowers == <<"a","b","c","d","e","f","g","h","i","j","k","l","m",
            "n","o","p","q","r","s","t","u","v","w","x","y","z">>

Uppers == <<"A","B","C","D","E","F","G","H","I","J","K","L","M",
            "N","O","P","Q","R","S","T","U","V","W","X","Y","Z">>

\* String.prototype.toUpperCase on one character
UpperChar(ch) ==
  IF \E i \in DOMAIN Lowers : Lowers[i] = ch
  THEN Uppers[CHOOSE i \in DOMAIN Lowers : Lowers[i] = ch]
  ELSE ch

\* a lookup that leaves the letter case of the code as it is
toUpperCase_none(s) == s

\* String.prototype.toUpperCase; a string is a sequence of characters
toUpperCase(s) == [i \in DOMAIN s |-> UpperChar(s[i])]

IsSpace(ch) == ch = " "

RECURSIVE TrimLeft(_)
TrimLeft(s) ==
  IF s = <<>> THEN <<>>
  ELSE IF IsSpace(Head(s)) THEN TrimLeft(Tail(s)) ELSE s

RECURSIVE TrimRight(_)
TrimRight(s) ==
  IF s = <<>> THEN <<>>
  ELSE IF IsSpace(s[Len(s)]) THEN TrimRight(SubSeq(s, 1, Len(s) - 1)) ELSE s

\* String.prototype.trim
trim(s) == TrimRight(TrimLeft(s))

\* A message body is kept run-length encoded: a sequence of runs
\* [ch |-> character, n |-> repetitions >= 1].
RECURSIVE BodyLength(_)
BodyLength(b) == IF b = <<>> THEN 0 ELSE Head(b).n + BodyLength(Tail(b))

RECURSIVE BodyTrimLeft(_)
BodyTrimLeft(b) ==
  IF b = <<>> THEN <<>>
  ELSE IF IsSpace(Head(b).ch) THEN BodyTrimLeft(Tail(b)) ELSE b

RECURSIVE BodyTrimRight(_)
BodyTrimRight(b) ==
  IF b = <<>> THEN <<>>
  ELSE IF IsSpace(b[Len(b)].ch) THEN BodyTrimRight(SubSeq(b, 1, Len(b) - 1)) ELSE b

BodyTrim(b) == BodyTrimRight(BodyTrimLeft(b))

RECURSIVE Reverse(_)
Reverse(s) == IF s = <<>> THEN <<>> ELSE Append(Reverse(Tail(s)), Head(s))

Take(s, n) == SubSeq(s, 1, IF Len(s) < n THEN Len(s) ELSE n)

----------------------------------------------------------------------------
(* Program constants and inputs *)

\* maxlength of the chat input of the room page
MaxMessageLength == 500

\* default limit of getRoomMessages
HistoryLimit == 50

\* length a name is cut to by /setname; users.name is VARCHAR(30)
MaxNameLength == 30

\* code of the default room
BEER01 == <<"B","E","E","R","0","1">>

\* code of a room made by createRoom (six characters of A-Z0-9)
Q7K2P9 == <<"Q","7","K","2","P","9">>

\* room codes a client sends with join-room
CodeInputs ==
  { <<"b","e","e","r","0","1">>,
    Q7K2P9,
    <<"Z","Z","Z","Z","Z","Z">> }

\* message bodies a client sends with send-message
BodyInputs ==
  { << [ch |-> " ", n |-> 2] >>,
    << [ch |-> "h", n |-> 1], [ch |-> "i", n |-> 1] >>,
    << [ch |-> "x", n |-> MaxMessageLength + 1] >> }

\* names posted to /set-name
NameInputs == { <<>>, <<" ", " ">>, <<" ", "A", "l">> }

NoUser == [id |-> 0, session_id |-> "", name |-> ""]

NoRoom == [id |-> 0, room_code |-> <<>>, is_active |-> FALSE, creator_id |-> 0]

NoMessage == [id |-> 0, room_id |-> 0, user_id |-> 0, message |-> <<>>, created_at |-> 0]

\* a message as the clients get it (no message)
NoPayload == [id |-> 0, message |-> <<>>, user_id |-> 0, user_name |-> ""]

\* the HTTP requests in flight
Reqs == {"r1", "r2"}

\* a route handler that has not been entered
NoRequest ==
  [pc |-> "idle", route |-> "", sessionId |-> "", userId |-> 0, input |-> <<>>,
   roomCode |-> <<>>, attempts |-> 0, checks |-> 0, room |-> NoRoom,
   inserted |-> [rooms |-> <<>>, room_participants |-> <<>>],
   error |-> "", redirect |-> <<>>]

\* no query function has been called
NoQuery == [fn |-> "", roomId |-> 0, limit |-> 0, rows |-> <<>>]

\* the tables and indexes initializeDatabase of server.mjs creates, in the
\* order of its statements
Statements ==
  << "users", "beer_entries", "idx_beer_entries_user_id",
     "idx_beer_entries_created_at", "idx_users_session_id" >>

Relations == {Statements[i] : i \in DOMAIN Statements}

\* getLeaderboard has not been called
NoLeaderboard ==
  [called |-> FALSE, roomId |-> 0, error |-> "", participants |-> <<>>,
   observers |-> <<>>]

----------------------------------------------------------------------------
VARIABLES
  users,              \* table users: set of rows
  rooms,              \* table rooms: rows in creation order
  room_participants,  \* table room_participants: rows in joined_at order
  room_messages,      \* table room_messages: rows in created_at order
  session,            \* session store: session id -> [userId, message, error]
  status,             \* connection -> "new" | "connecting" | "stalled" |
                      \*   "authed" | "rejected" | "closed"
  csession,           \* connection -> session of its handshake
  socketUserId,       \* socket.userId  (0: not set)
  socketRoomId,       \* socket.roomId  (0: not set)
  socketRoomCode,     \* socket.roomCode (<<>>: not set)
  socketRooms,        \* broadcast groups (socket.io rooms) the socket is in
  inbox,              \* connection -> events delivered to its client, in order
  jpc,                \* join-room handler: where it is suspended
  jarg,               \* join-room handler: the roomCode argument
  jroom,              \* join-room handler: local 'room'
  jmessages,          \* join-room handler: local 'messages'
  jeffect,            \* history: this join-room handler has changed state
  spc,                \* send-message handler: where it is suspended
  sroomId,            \* send-message handler: socket.roomId read at the call
  sbody,              \* send-message handler: messageData.message
  ssaved,             \* send-message handler: result.rows[0] of the insert
  dpc,                \* disconnect handler: where it is suspended
  droomId,            \* disconnect handler: socket.roomId read at the call
  nreq,               \* requests of the clients so far
  nfail,              \* database queries that have failed so far
  http,               \* HTTP request -> the locals of its route handler
  migration,          \* initializeDatabase and createDefaultRoomAndMigrate:
                      \*   where the startup is suspended
  query,              \* the last call of a query function and what it returned
  beer_entries,       \* table beer_entries: rows in created_at order
  beer_entries_id_seq,\* the sequence of beer_entries.id: the last id given
  schema,             \* the tables and indexes of the tally that exist
  user_type,          \* column user_type of users: user id -> type
  room_id,            \* column room_id of users: user id -> room id (0: NULL)
  dbConnected,        \* let dbConnected of the server
  leaderboard         \* the last call of getLeaderboard and what it returned

vars ==
  << users, rooms, room_participants, room_messages, session, status, csession,
     socketUserId, socketRoomId, socketRoomCode, socketRooms, inbox,
     jpc, jarg, jroom, jmessages, jeffect,
     spc, sroomId, sbody, ssaved, dpc, droomId, nreq, nfail,
     http, migration, query,
     beer_entries, beer_entries_id_seq, schema, user_type, room_id,
     dbConnected, leaderboard >>

dbVars == << users, rooms, room_participants, room_messages >>

joinVars == << jpc, jarg, jroom, jmessages, jeffect >>

sendVars == << spc, sroomId, sbody, ssaved >>

socketVars == << socketUserId, socketRoomId, socketRoomCode, socketRooms >>

discVars == << dpc, droomId >>

\* the HTTP routes, the migration at startup, and the query functions
routeVars == << http, migration, query >>

\* the beer tally: its table, the columns of users it reads, the flag of the
\* startup and the leaderboard
tallyVars ==
  << beer_entries, beer_entries_id_seq, schema, user_type, room_id,
     dbConnected, leaderboard >>

----------------------------------------------------------------------------
(* The relational store *)

\* a query returns (TRUE) or fails, as on a lost connection (FALSE)
QueryOutcomes == IF nfail < MaxFailures THEN {TRUE, FALSE} ELSE {TRUE}

\* CURRENT_TIMESTAMP of an insert into a table kept in the order of its
\* timestamp column: later than every row there is
Now(table, column) ==
  IF table = <<>> THEN 1 ELSE table[Len(table)][column] + 1

\* SELECT id, name, ... FROM users WHERE session_id = $1;  rows[0] || null
getOrCreateUser(sessionId) ==
  IF \E u \in users : u.session_id = sessionId
  THEN CHOOSE u \in users : u.session_id = sessionId
  ELSE NoUser

\* SELECT name FROM users WHERE id = $1
UserName(userId) ==
  IF \E u \in users : u.id = userId
  THEN (CHOOSE u \in users : u.id = userId).name
  ELSE ""

\* the lookup that takes a deactivated room too
SelectActiveRoom_any(code) == SelectSeq(rooms, LAMBDA r : r.room_code = code)

\* SELECT * FROM rooms WHERE room_code = $1 AND is_active = true
SelectActiveRoom(code) ==
  SelectSeq(rooms, LAMBDA r : r.room_code = code /\ r.is_active)

\* SELECT * FROM room_participants WHERE room_id = $1 AND user_id = $2
SelectParticipant(roomId, userId) ==
  SelectSeq(room_participants, LAMBDA p : p.room_id = roomId /\ p.user_id = userId)

\* the table without its UNIQUE(room_id, user_id) constraint
UniqueParticipant_none(roomId, userId) == TRUE

\* UNIQUE(room_id, user_id) of room_participants: may this row be inserted?
UniqueParticipant(roomId, userId) ==
  \A i \in DOMAIN room_participants :
    ~(room_participants[i].room_id = roomId /\ room_participants[i].user_id = userId)

\* the insert with the row's flag left false
InsertParticipant_inactive(roomId, userId) ==
  Append(room_participants,
         [room_id |-> roomId, user_id |-> userId, is_active |-> FALSE,
          joined_at |-> Now(room_participants, "joined_at")])

\* INSERT INTO room_participants (room_id, user_id); is_active DEFAULT true,
\* joined_at DEFAULT CURRENT_TIMESTAMP (the row is the latest)
InsertParticipant(roomId, userId) ==
  Append(room_participants,
         [room_id |-> roomId, user_id |-> userId, is_active |-> TRUE,
          joined_at |-> Now(room_participants, "joined_at")])

\* the update as a delete of the row
ReactivateParticipant_drop(roomId, userId) ==
  SelectSeq(room_participants, LAMBDA p : ~(p.room_id = roomId /\ p.user_id = userId))

\* the update as a new join: the row gets the time of the rejoin and its
\* place at the end of the table
ReactivateParticipant_rejoined(roomId, userId) ==
  Append(SelectSeq(room_participants,
                   LAMBDA p : ~(p.room_id = roomId /\ p.user_id = userId)),
         [room_id |-> roomId, user_id |-> userId, is_active |-> TRUE,
          joined_at |-> Now(room_participants, "joined_at")])

\* UPDATE room_participants SET is_active = true WHERE room_id = $1 AND user_id = $2
ReactivateParticipant(roomId, userId) ==
  [i \in DOMAIN room_participants |->
     IF room_participants[i].room_id = roomId /\ room_participants[i].user_id = userId
     THEN [room_participants[i] EXCEPT !.is_active = TRUE]
     ELSE room_participants[i]]

\* the query over a table that keeps the name of the author with the message:
\* the name the message went out with as new-message, if it did
getRoomMessages_stored(roomId, limit) ==
  LET ofRoom == SelectSeq(room_messages, LAMBDA m : m.room_id = roomId)
      newest == Take(Reverse(ofRoom), limit)
      sent(m) == {e \in UNION {{inbox[c][j] : j \in DOMAIN inbox[c]} : c \in DOMAIN inbox} :
                    e.type = "new-message" /\ e.message.id = m.id}
      named  == [i \in DOMAIN newest |->
                   [id |-> newest[i].id, message |-> newest[i].message,
                    user_id |-> newest[i].user_id,
                    user_name |-> IF sent(newest[i]) = {}
                                  THEN UserName(newest[i].user_id)
                                  ELSE (CHOOSE e \in sent(newest[i]) : TRUE).message.user_name]]
  IN  Reverse(named)

\* SELECT rm.*, u.name ... WHERE rm.room_id = $1 ORDER BY created_at DESC LIMIT $2,
\* then rows.reverse()
getRoomMessages(roomId, limit) ==
  LET ofRoom == SelectSeq(room_messages, LAMBDA m : m.room_id = roomId)
      newest == Take(Reverse(ofRoom), limit)
      named  == [i \in DOMAIN newest |->
                   [id |-> newest[i].id, message |-> newest[i].message,
                    user_id |-> newest[i].user_id,
                    user_name |-> UserName(newest[i].user_id)]]
  IN  Reverse(named)

\* SELECT u.id, u.name FROM room_participants rp JOIN users u ...
\* WHERE rp.room_id = $1 AND rp.is_active = true ORDER BY rp.joined_at ASC
getRoomParticipants(roomId) ==
  LET rows == SelectSeq(room_participants,
                        LAMBDA p : p.room_id = roomId /\ p.is_active
                                   /\ \E u \in users : u.id = p.user_id)
  IN  [i \in DOMAIN rows |-> [id |-> rows[i].user_id, name |-> UserName(rows[i].user_id)]]

\* INSERT INTO room_messages (room_id, user_id, message) ... RETURNING *
NewMessageRow(roomId, userId, message) ==
  [id |-> Len(room_messages) + 1, room_id |-> roomId, user_id |-> userId,
   message |-> message, created_at |-> Now(room_messages, "created_at")]

----------------------------------------------------------------------------
(* The fan-out channel (socket.io) *)

\* the socket is open: the transport delivers what is emitted to it
Connected(st, c) == st[c] \in {"connecting", "stalled", "authed"}

\* An event as a client receives it.  src (the connection whose handler emitted
\* it) and to (the broadcast group, <<>> for a direct emit) are bookkeeping.
Event(type, src, to) ==
  [type |-> type, src |-> src, to |-> to, room |-> NoRoom, user |-> NoUser.id,
   participants |-> <<>>, messages |-> <<>>, message |-> NoPayload, text |-> ""]

Deliver(box, targets, e) ==
  [c \in Conns |-> IF c \in targets THEN Append(box[c], e) ELSE box[c]]

\* the open sockets that are in broadcast group 'code'
InRoom(st, joined, code) == {c \in Conns : Connected(st, c) /\ code \in joined[c]}

\* socket.emit(e)
SocketEmit(box, st, c, e) == Deliver(box, IF Connected(st, c) THEN {c} ELSE {}, e)

\* a broadcast that does not leave the socket itself out
SocketTo_all(box, st, joined, c, code, e) ==
  Deliver(box, InRoom(st, joined, code), e)

\* socket.to(code).emit(e): the group without the socket itself
SocketTo(box, st, joined, c, code, e) ==
  Deliver(box, InRoom(st, joined, code) \ {c}, e)

\* io.to(code).emit(e): the whole group
IoTo(box, st, joined, code, e) == Deliver(box, InRoom(st, joined, code), e)

----------------------------------------------------------------------------
(* Initial state: a started server over the database an earlier run left:   *)
(* two users, the default room of the migration, and a room created by user *)
(* 1 (createRoom inserts the creator as a participant).  No session has     *)
(* passed /set-name yet and no socket is open.                              *)

InitTables ==
  /\ users = { [id |-> 1, session_id |-> "s1", name |-> "Alice"],
               [id |-> 2, session_id |-> "s2", name |-> "Bob"] }
  /\ rooms = << [id |-> 1, room_code |-> BEER01, is_active |-> TRUE, creator_id |-> 1],
                [id |-> 2, room_code |-> Q7K2P9, is_active |-> TRUE, creator_id |-> 1] >>
  /\ room_participants =
       << [room_id |-> 2, user_id |-> 1, is_active |-> TRUE, joined_at |-> 1] >>
  /\ room_messages = <<>>

InitSockets ==
  /\ status = [c \in Conns |-> "new"]
  /\ csession = [c \in Conns |-> ""]
  /\ socketUserId = [c \in Conns |-> 0]
  /\ socketRoomId = [c \in Conns |-> 0]
  /\ socketRoomCode = [c \in Conns |-> <<>>]
  /\ socketRooms = [c \in Conns |-> {}]
  /\ inbox = [c \in Conns |-> <<>>]
  /\ jpc = [c \in Conns |-> "idle"]
  /\ jarg = [c \in Conns |-> <<>>]
  /\ jroom = [c \in Conns |-> NoRoom]
  /\ jmessages = [c \in Conns |-> <<>>]
  /\ jeffect = [c \in Conns |-> FALSE]
  /\ spc = [c \in Conns |-> "idle"]
  /\ sroomId = [c \in Conns |-> 0]
  /\ sbody = [c \in Conns |-> <<>>]
  /\ ssaved = [c \in Conns |-> NoMessage]
  /\ dpc = [c \in Conns |-> "idle"]
  /\ droomId = [c \in Conns |-> 0]
  /\ nreq = 0
  /\ nfail = 0

\* The startup has migrated the users: every user is a participant (the
\* default of the column) of the default room, or of no room where there is
\* no default room.  Nobody has had a beer.
InitTally ==
  /\ beer_entries = <<>>
  /\ beer_entries_id_seq = 0
  /\ schema = Relations
  /\ user_type = [id \in {u.id : u \in users} |-> "participant"]
  /\ room_id = [id \in {u.id : u \in users} |->
                  IF \E i \in DOMAIN rooms : rooms[i].room_code = BEER01
                  THEN rooms[CHOOSE i \in DOMAIN rooms : rooms[i].room_code = BEER01].id
                  ELSE 0]
  /\ dbConnected = TRUE
  /\ leaderboard = NoLeaderboard

\* no HTTP request is in flight, the migration of the startup is done and no
\* query function is called
InitRoutes ==
  /\ http = [r \in Reqs |-> NoRequest]
  /\ migration = "done"
  /\ query = NoQuery
  /\ InitTally

\* the sessions of the two users have passed /set-name in the earlier run
\* (the session store is a table of the same database); s3 is a new visitor
Init ==
  /\ InitTables
  /\ InitSockets
  /\ InitRoutes
  /\ session = [s \in Sessions |->
                  [userId |-> getOrCreateUser(s).id, message |-> "", error |-> ""]]

\* no session has passed /set-name yet
InitIdentity ==
  /\ InitTables
  /\ InitSockets
  /\ InitRoutes
  /\ session = [s \in Sessions |-> [userId |-> 0, message |-> "", error |-> ""]]

----------------------------------------------------------------------------
(* HTTP: POST /set-name *)

\* The route returns early for a name that is empty after trimming.  Else it
\* looks the session's user up; with no user row, user.id throws and the catch
\* branch stores the error.
SetName(s, name) ==
  /\ Len(trim(name)) # 0
  /\ LET user == getOrCreateUser(s)
     IN  session' =
           [session EXCEPT ![s] =
              IF user = NoUser
              THEN [@ EXCEPT !.error = "Failed to create user profile."]
              ELSE [@ EXCEPT !.userId = user.id,
                             !.message = "Welcome! You're all set."]]
  /\ UNCHANGED << routeVars, tallyVars, dbVars, status, csession, socketVars, inbox,
                  joinVars, sendVars, discVars, nreq, nfail >>

----------------------------------------------------------------------------
(* io.on('connection') *)

\* the handler without its check of session.userId
Connect_nocheck(c, s) ==
  /\ status[c] = "new"
  /\ \A b \in Conns : Before(b, c) => status[b] # "new"
  /\ csession' = [csession EXCEPT ![c] = s]
  /\ status' = [status EXCEPT ![c] = "connecting"]
  /\ UNCHANGED << routeVars, tallyVars, dbVars, session, socketVars, inbox, joinVars, sendVars,
                  discVars, nreq, nfail >>

\* A socket opens with the session of its handshake.  Without session.userId
\* the handler disconnects it at once; else it awaits the user lookup.
Connect(c, s) ==
  /\ status[c] = "new"
  /\ \A b \in Conns : Before(b, c) => status[b] # "new"
  /\ csession' = [csession EXCEPT ![c] = s]
  /\ status' = [status EXCEPT ![c] =
                  IF session[s].userId = 0 THEN "rejected" ELSE "connecting"]
  /\ UNCHANGED << routeVars, tallyVars, dbVars, session, socketVars, inbox, joinVars, sendVars,
                  discVars, nreq, nfail >>

\* The user lookup returns: no user disconnects the socket, a user registers
\* the three handlers.  A failed query rejects the handler (nothing catches
\* it): the socket stays open with no handler.
ConnectionLookup(c) ==
  /\ status[c] = "connecting"
  /\ \E ok \in QueryOutcomes :
     /\ nfail' = IF ok THEN nfail ELSE nfail + 1
     /\ UNCHANGED nreq
     /\ LET user == getOrCreateUser(csession[c])
       IN  /\ status' = [status EXCEPT ![c] =
                           IF ~ok THEN "stalled"
                           ELSE IF user = NoUser THEN "rejected" ELSE "authed"]
           /\ socketUserId' = [socketUserId EXCEPT ![c] =
                                 IF ok /\ user # NoUser THEN user.id ELSE @]
  /\ UNCHANGED << routeVars, tallyVars, dbVars, session, csession, socketRoomId, socketRoomCode,
                  socketRooms, inbox, joinVars, sendVars, discVars >>

----------------------------------------------------------------------------
(* socket.on('join-room') *)

ErrorEvent(c, text) == [Event("error", c, <<>>) EXCEPT !.text = text]

\* the catch branch of the handler: socket.emit('error', error.message)
JoinCatch(c, text) ==
  /\ inbox' = SocketEmit(inbox, status, c, ErrorEvent(c, text))
  /\ jpc' = [jpc EXCEPT ![c] = "idle"]
  /\ jarg' = [jarg EXCEPT ![c] = <<>>]
  /\ jroom' = [jroom EXCEPT ![c] = NoRoom]
  /\ jmessages' = [jmessages EXCEPT ![c] = <<>>]
  /\ jeffect' = [jeffect EXCEPT ![c] = FALSE]

\* the client emits join-room(roomCode): joinRoom issues the room query
JoinRequest(c, code) ==
  /\ status[c] = "authed"
  /\ jpc[c] = "idle"
  /\ nreq < MaxRequests
  /\ jpc' = [jpc EXCEPT ![c] = "room"]
  /\ jarg' = [jarg EXCEPT ![c] = code]
  /\ nreq' = nreq + 1
  /\ UNCHANGED << routeVars, tallyVars, dbVars, session, status, csession, socketVars, inbox,
                  jroom, jmessages, jeffect, sendVars, discVars, nfail >>

\* The client emits join-room(roomCode) on a socket whose connection handler
\* has not come to socket.on('join-room', ...): it is still awaiting the user
\* lookup, or the lookup has failed.  The event has no listener on the server
\* and is dropped; the request stays unheard.
JoinRequestUnheard(c, code) ==
  /\ status[c] \in {"connecting", "stalled"}
  /\ jpc[c] = "idle"
  /\ nreq < MaxRequests
  /\ jpc' = [jpc EXCEPT ![c] = "unheard"]
  /\ jarg' = [jarg EXCEPT ![c] = code]
  /\ nreq' = nreq + 1
  /\ UNCHANGED << routeVars, tallyVars, dbVars, session, status, csession, socketVars, inbox,
                  jroom, jmessages, jeffect, sendVars, discVars, nfail >>

\* joinRoom: the room query returns
JoinSelectRoom(c) ==
  /\ jpc[c] = "room"
  /\ \E ok \in QueryOutcomes :
     /\ nfail' = IF ok THEN nfail ELSE nfail + 1
     /\ UNCHANGED nreq
     /\ LET roomResult == SelectActiveRoom(toUpperCase(jarg[c]))
       IN  IF ok /\ Len(roomResult) # 0
           THEN /\ jroom' = [jroom EXCEPT ![c] = roomResult[1]]
                /\ jpc' = [jpc EXCEPT ![c] = "existing"]
                /\ UNCHANGED << inbox, jarg, jmessages, jeffect >>
           ELSE JoinCatch(c, IF ok THEN "Room not found" ELSE "query failed")
  /\ UNCHANGED << routeVars, tallyVars, dbVars, session, status, csession, socketVars, sendVars, discVars >>

\* joinRoom: the query for an existing participant row returns
JoinSelectExisting(c) ==
  /\ jpc[c] = "existing"
  /\ \E ok \in QueryOutcomes :
     /\ nfail' = IF ok THEN nfail ELSE nfail + 1
     /\ UNCHANGED nreq
     /\ LET existingParticipant == SelectParticipant(jroom[c].id, socketUserId[c])
       IN  IF ok
           THEN /\ jpc' = [jpc EXCEPT ![c] =
                             IF Len(existingParticipant) = 0 THEN "insert" ELSE "update"]
                /\ UNCHANGED << inbox, jarg, jroom, jmessages, jeffect >>
           ELSE JoinCatch(c, "query failed")
  /\ UNCHANGED << routeVars, tallyVars, dbVars, session, status, csession, socketVars, sendVars, discVars >>

\* joinRoom has returned the room: socket.roomId, socket.roomCode, socket.join,
\* and getRoomMessages is issued
JoinEnter(c, participants) ==
  /\ room_participants' = participants
  /\ socketRoomId' = [socketRoomId EXCEPT ![c] = jroom[c].id]
  /\ socketRoomCode' = [socketRoomCode EXCEPT ![c] = jroom[c].room_code]
  /\ socketRooms' = [socketRooms EXCEPT ![c] = @ \cup {jroom[c].room_code}]
  /\ jpc' = [jpc EXCEPT ![c] = "messages"]
  /\ jeffect' = [jeffect EXCEPT ![c] =
                   \/ participants # room_participants
                   \/ socketRoomId[c] # jroom[c].id
                   \/ socketRoomCode[c] # jroom[c].room_code
                   \/ jroom[c].room_code \notin socketRooms[c]]
  /\ UNCHANGED << users, rooms, room_messages, socketUserId, inbox,
                  jarg, jroom, jmessages >>

\* joinRoom: the INSERT of the participant row returns
JoinInsert(c) ==
  /\ jpc[c] = "insert"
  /\ \E ok \in QueryOutcomes :
     /\ nfail' = IF ok THEN nfail ELSE nfail + 1
     /\ UNCHANGED nreq
     /\ IF ok /\ UniqueParticipant(jroom[c].id, socketUserId[c])
       THEN JoinEnter(c, InsertParticipant(jroom[c].id, socketUserId[c]))
       ELSE /\ JoinCatch(c, IF ok THEN "duplicate key" ELSE "query failed")
            /\ UNCHANGED << dbVars, socketVars >>
  /\ UNCHANGED << routeVars, tallyVars, session, status, csession, sendVars, discVars >>

\* joinRoom: the UPDATE of the participant row returns
JoinUpdate(c) ==
  /\ jpc[c] = "update"
  /\ \E ok \in QueryOutcomes :
     /\ nfail' = IF ok THEN nfail ELSE nfail + 1
     /\ UNCHANGED nreq
     /\ IF ok
       THEN JoinEnter(c, ReactivateParticipant(jroom[c].id, socketUserId[c]))
       ELSE /\ JoinCatch(c, "query failed")
            /\ UNCHANGED << dbVars, socketVars >>
  /\ UNCHANGED << routeVars, tallyVars, session, status, csession, sendVars, discVars >>

\* getRoomMessages returns; getRoomParticipants is issued
JoinGetMessages(c) ==
  /\ jpc[c] = "messages"
  /\ \E ok \in QueryOutcomes :
     /\ nfail' = IF ok THEN nfail ELSE nfail + 1
     /\ UNCHANGED nreq
     /\ IF ok
       THEN /\ jmessages' = [jmessages EXCEPT ![c] =
                               getRoomMessages(jroom[c].id, HistoryLimit)]
            /\ jpc' = [jpc EXCEPT ![c] = "participants"]
            /\ UNCHANGED << inbox, jarg, jroom, jeffect >>
       ELSE JoinCatch(c, "query failed")
  /\ UNCHANGED << routeVars, tallyVars, dbVars, session, status, csession, socketVars, sendVars, discVars >>

RoomJoinedEvent(c, room, messages, participants) ==
  [Event("room-joined", c, <<>>) EXCEPT
     !.room = room, !.messages = messages, !.participants = participants]

UserEvent(type, c, to, userId) == [Event(type, c, to) EXCEPT !.user = userId]

ParticipantsEvent(c, to, participants) ==
  [Event("participants-updated", c, to) EXCEPT !.participants = participants]

\* getRoomParticipants returns: room-joined to the socket, user-joined to the
\* others of the group, and getRoomParticipants is issued again
JoinGetParticipants(c) ==
  /\ jpc[c] = "participants"
  /\ \E ok \in QueryOutcomes :
     /\ nfail' = IF ok THEN nfail ELSE nfail + 1
     /\ UNCHANGED nreq
     /\ IF ok
       THEN LET participants == getRoomParticipants(jroom[c].id)
                box1 == SocketEmit(inbox, status, c,
                          RoomJoinedEvent(c, jroom[c], jmessages[c], participants))
            IN  /\ inbox' = SocketTo(box1, status, socketRooms, c, jroom[c].room_code,
                              UserEvent("user-joined", c, jroom[c].room_code,
                                        socketUserId[c]))
                /\ jpc' = [jpc EXCEPT ![c] = "updated"]
                /\ UNCHANGED << jarg, jroom, jmessages, jeffect >>
       ELSE JoinCatch(c, "query failed")
  /\ UNCHANGED << routeVars, tallyVars, dbVars, session, status, csession, socketVars, sendVars, discVars >>

\* the second getRoomParticipants returns: participants-updated to the group
JoinUpdateParticipants(c) ==
  /\ jpc[c] = "updated"
  /\ \E ok \in QueryOutcomes :
     /\ nfail' = IF ok THEN nfail ELSE nfail + 1
     /\ UNCHANGED nreq
     /\ IF ok
       THEN /\ inbox' = IoTo(inbox, status, socketRooms, jroom[c].room_code,
                          ParticipantsEvent(c, jroom[c].room_code,
                                            getRoomParticipants(jroom[c].id)))
            /\ jpc' = [jpc EXCEPT ![c] = "idle"]
            /\ jarg' = [jarg EXCEPT ![c] = <<>>]
            /\ jroom' = [jroom EXCEPT ![c] = NoRoom]
            /\ jmessages' = [jmessages EXCEPT ![c] = <<>>]
            /\ jeffect' = [jeffect EXCEPT ![c] = FALSE]
                 ELSE JoinCatch(c, "query failed")
  /\ UNCHANGED << routeVars, tallyVars, dbVars, session, status, csession, socketVars, sendVars, discVars >>

----------------------------------------------------------------------------
(* socket.on('send-message') *)

\* the catch branch of the handler: socket.emit('error', 'Failed to send message')
SendCatch(c) ==
  /\ inbox' = SocketEmit(inbox, status, c, ErrorEvent(c, "Failed to send message"))
  /\ spc' = [spc EXCEPT ![c] = "idle"]
  /\ sroomId' = [sroomId EXCEPT ![c] = 0]
  /\ sbody' = [sbody EXCEPT ![c] = <<>>]
  /\ ssaved' = [ssaved EXCEPT ![c] = NoMessage]

\* the client emits send-message({message}): the handler returns when the
\* socket has no room, else saveMessage issues the INSERT for socket.roomId
SendRequest(c, message) ==
  /\ status[c] = "authed"
  /\ spc[c] = "idle"
  /\ nreq < MaxRequests
  /\ nreq' = nreq + 1
  /\ IF socketRoomId[c] = 0
     THEN UNCHANGED << spc, sroomId, sbody >>
     ELSE /\ spc' = [spc EXCEPT ![c] = "insert"]
          /\ sroomId' = [sroomId EXCEPT ![c] = socketRoomId[c]]
          /\ sbody' = [sbody EXCEPT ![c] = message]
  /\ UNCHANGED << routeVars, tallyVars, dbVars, session, status, csession, socketVars, inbox,
                  joinVars, ssaved, discVars, nfail >>

\* the handler with an UPDATE of the latest row in the place of the INSERT
SendInsert_edit(c) ==
  /\ spc[c] = "insert"
  /\ \E ok \in QueryOutcomes :
     /\ nfail' = IF ok THEN nfail ELSE nfail + 1
     /\ UNCHANGED nreq
     /\ IF ok
       THEN LET row == NewMessageRow(sroomId[c], socketUserId[c], sbody[c])
            IN  /\ room_messages' =
                     IF room_messages = <<>> THEN << row >>
                     ELSE [room_messages EXCEPT ![Len(room_messages)] = row]
                /\ ssaved' = [ssaved EXCEPT ![c] = row]
                /\ spc' = [spc EXCEPT ![c] = "name"]
                /\ UNCHANGED << inbox, sroomId, sbody >>
       ELSE /\ SendCatch(c)
            /\ UNCHANGED room_messages
  /\ UNCHANGED << routeVars, tallyVars, users, rooms, room_participants, session, status, csession,
                  socketVars, joinVars, discVars >>

\* saveMessage: the INSERT returns the new row; the name query is issued
SendInsert(c) ==
  /\ spc[c] = "insert"
  /\ \E ok \in QueryOutcomes :
     /\ nfail' = IF ok THEN nfail ELSE nfail + 1
     /\ UNCHANGED nreq
     /\ IF ok
       THEN LET row == NewMessageRow(sroomId[c], socketUserId[c], sbody[c])
            IN  /\ room_messages' = Append(room_messages, row)
                /\ ssaved' = [ssaved EXCEPT ![c] = row]
                /\ spc' = [spc EXCEPT ![c] = "name"]
                /\ UNCHANGED << inbox, sroomId, sbody >>
       ELSE /\ SendCatch(c)
            /\ UNCHANGED room_messages
  /\ UNCHANGED << routeVars, tallyVars, users, rooms, room_participants, session, status, csession,
                  socketVars, joinVars, discVars >>

MessageEvent(c, to, saved, userName) ==
  [Event("new-message", c, to) EXCEPT
     !.message = [id |-> saved.id, message |-> saved.message,
                  user_id |-> saved.user_id, user_name |-> userName]]

\* saveMessage: the name query returns; new-message to the group socket.roomCode
SendSelectName(c) ==
  /\ spc[c] = "name"
  /\ \E ok \in QueryOutcomes :
     /\ nfail' = IF ok THEN nfail ELSE nfail + 1
     /\ UNCHANGED nreq
     /\ IF ok
       THEN /\ inbox' = IoTo(inbox, status, socketRooms, socketRoomCode[c],
                          MessageEvent(c, socketRoomCode[c], ssaved[c],
                                       UserName(socketUserId[c])))
            /\ spc' = [spc EXCEPT ![c] = "idle"]
            /\ sroomId' = [sroomId EXCEPT ![c] = 0]
            /\ sbody' = [sbody EXCEPT ![c] = <<>>]
            /\ ssaved' = [ssaved EXCEPT ![c] = NoMessage]
                 ELSE SendCatch(c)
  /\ UNCHANGED << routeVars, tallyVars, dbVars, session, status, csession, socketVars, joinVars, discVars >>

----------------------------------------------------------------------------
(* socket.on('disconnect') *)

\* The socket closes.  socket.io takes it out of its groups before the
\* handler runs; the handler exists only on a socket that passed the user
\* lookup.  With socket.roomCode set it emits user-left to the group, and
\* with socket.roomId set it issues getRoomParticipants(socket.roomId).
Disconnect(c) ==
  /\ Connected(status, c)
  /\ nreq < MaxRequests
  /\ nreq' = nreq + 1
  /\ status' = [status EXCEPT ![c] = "closed"]
  /\ socketRooms' = [socketRooms EXCEPT ![c] = {}]
  /\ IF status[c] = "authed" /\ socketRoomCode[c] # <<>>
     THEN /\ inbox' = SocketTo(inbox, status', socketRooms', c, socketRoomCode[c],
                        UserEvent("user-left", c, socketRoomCode[c], socketUserId[c]))
          /\ dpc' = [dpc EXCEPT ![c] =
                       IF socketRoomId[c] # 0 THEN "participants" ELSE "done"]
          /\ droomId' = [droomId EXCEPT ![c] = socketRoomId[c]]
     ELSE /\ dpc' = [dpc EXCEPT ![c] = "done"]
          /\ UNCHANGED << inbox, droomId >>
  /\ UNCHANGED << routeVars, tallyVars, dbVars, session, csession, socketUserId, socketRoomId,
                  socketRoomCode, joinVars, sendVars, nfail >>

\* getRoomParticipants returns: participants-updated to the group
\* socket.roomCode, without the socket.  Nothing catches a failed query.
DisconnectGetParticipants(c) ==
  /\ dpc[c] = "participants"
  /\ \E ok \in QueryOutcomes :
     /\ nfail' = IF ok THEN nfail ELSE nfail + 1
     /\ UNCHANGED nreq
     /\ inbox' = IF ok
                THEN SocketTo(inbox, status, socketRooms, c, socketRoomCode[c],
                       ParticipantsEvent(c, socketRoomCode[c],
                                         getRoomParticipants(droomId[c])))
                ELSE inbox
  /\ dpc' = [dpc EXCEPT ![c] = "done"]
  /\ droomId' = [droomId EXCEPT ![c] = 0]
  /\ UNCHANGED << routeVars, tallyVars, dbVars, session, status, csession, socketVars, joinVars, sendVars >>

----------------------------------------------------------------------------
(* Room codes *)

\* const chars of generateRoomCode
chars ==
  <<"A","B","C","D","E","F","G","H","I","J","K","L","M",
    "N","O","P","Q","R","S","T","U","V","W","X","Y","Z",
    "0","1","2","3","4","5","6","7","8","9">>

\* String.prototype.charAt, positions from 0
charAt(str, i) == IF i + 1 \in DOMAIN str THEN str[i + 1] ELSE ""

\* rounds of the loop of generateRoomCode
CodeLength == 6

\* attempts of createRoom
MaxAttempts == 10

\* generateRoomCode; draw[i] is Math.floor(Math.random() * chars.length) of
\* round i
generateRoomCode(draw) == [i \in 1..CodeLength |-> charAt(chars, draw[i])]

\* what the random generator gives in a run: the draws of BEER01, Q7K2P9,
\* OLD001 and AB12CD
Draws ==
  { <<1, 4, 4, 17, 26, 27>>, <<16, 33, 10, 28, 15, 35>>,
    <<14, 11, 3, 26, 26, 27>>, <<0, 1, 27, 28, 2, 3>> }

\* code of a room that has been deactivated by hand
OLD001 == <<"O","L","D","0","0","1">>

\* room names posted to /create-room
RoomNameInputs == { <<" ">>, <<"P","u","b"," ">> }

\* room codes posted to /join-room
RoomCodeInputs ==
  { <<" ","q","7","k","2","p","9">>, <<"o","l","d","0","0","1">>,
    <<"a","B","1","2","c","D">>, <<"Z","Z","Z","Z","Z","Z">> }

\* the table without the UNIQUE constraint of room_code
UniqueRoomCode_none(code) == TRUE

\* room_code VARCHAR(6) UNIQUE: may a row with this code be inserted?
UniqueRoomCode(code) == \A i \in DOMAIN rooms : rooms[i].room_code # code

\* SELECT id FROM rooms WHERE room_code = $1
SelectRoomByCode(code) == SelectSeq(rooms, LAMBDA r : r.room_code = code)

\* the insert with the flag of the room left false
NewRoomRow_inactive(code, userId) ==
  [id |-> Len(rooms) + 1, room_code |-> code, is_active |-> FALSE,
   creator_id |-> userId]

\* INSERT INTO rooms (room_code, name, creator_id) ... RETURNING *;
\* id SERIAL, is_active DEFAULT true
NewRoomRow(code, userId) ==
  [id |-> Len(rooms) + 1, room_code |-> code, is_active |-> TRUE,
   creator_id |-> userId]

\* the loop of createRoom giving up one attempt later
AttemptsExceeded_late(attempts) == attempts > MaxAttempts + 1

\* if (attempts > 10) throw
AttemptsExceeded(attempts) == attempts > MaxAttempts

----------------------------------------------------------------------------
(* HTTP: POST /create-room and POST /join-room *)

\* the slots of the requests are taken in this order
Earlier(q, r) == q = "r1" /\ r = "r2"

\* A request arrives: the route awaits getOrCreateUser(req.session.id).
PostRequest(r, route, s, input) ==
  /\ http[r].pc = "idle"
  /\ \A q \in Reqs : Earlier(q, r) => http[q].pc # "idle"
  /\ http' = [http EXCEPT ![r] =
                [NoRequest EXCEPT !.pc = "user", !.route = route,
                                  !.sessionId = s, !.input = input]]
  /\ UNCHANGED << dbVars, session, status, csession, socketVars, inbox,
                  joinVars, sendVars, discVars, nreq, nfail, migration, query, tallyVars >>

\* the catch branch of a route, entered with the locals req:
\* req.session.error, redirect to the form
RouteCatch(r, req, message) ==
  /\ http' = [http EXCEPT ![r] =
                [req EXCEPT !.pc = "failed", !.error = message,
                            !.redirect = <<"/", http[r].route>>]]
  /\ session' = [session EXCEPT ![http[r].sessionId] =
                   [@ EXCEPT !.error =
                      IF http[r].route = "create-room"
                      THEN "Failed to create room. Please try again."
                      ELSE message]]

\* The user lookup returns.  No user: redirect to "/".  A name or code that
\* is empty after trimming: the error is stored, redirect to the form.  Else
\* createRoom draws its first code and asks whether it exists, or joinRoom
\* asks for the active room of the code.  Nothing catches a failed lookup.
PostLookupUser(r) ==
  /\ http[r].pc = "user"
  /\ \E ok \in QueryOutcomes, draw \in Draws :
     /\ nfail' = IF ok THEN nfail ELSE nfail + 1
     /\ LET user == getOrCreateUser(http[r].sessionId)
            form == <<"/", http[r].route>>
        IN  IF ~ok
            THEN /\ http' = [http EXCEPT ![r] = [@ EXCEPT !.pc = "hung"]]
                 /\ UNCHANGED session
            ELSE IF user = NoUser
            THEN /\ http' = [http EXCEPT ![r] =
                               [@ EXCEPT !.pc = "done", !.redirect = <<"/">>]]
                 /\ UNCHANGED session
            ELSE IF Len(trim(http[r].input)) = 0
            THEN /\ http' = [http EXCEPT ![r] =
                               [@ EXCEPT !.pc = "done", !.redirect = form]]
                 /\ session' = [session EXCEPT ![http[r].sessionId] =
                                  [@ EXCEPT !.error =
                                     IF http[r].route = "create-room"
                                     THEN "Room name is required."
                                     ELSE "Room code is required."]]
            ELSE IF http[r].route = "create-room"
            THEN /\ http' = [http EXCEPT ![r] =
                               [@ EXCEPT !.pc = "check", !.userId = user.id,
                                         !.input = trim(http[r].input),
                                         !.roomCode = generateRoomCode(draw),
                                         !.attempts = 1]]
                 /\ UNCHANGED session
            ELSE /\ http' = [http EXCEPT ![r] =
                               [@ EXCEPT !.pc = "room", !.userId = user.id,
                                         !.roomCode = trim(http[r].input)]]
                 /\ UNCHANGED session
  /\ UNCHANGED << dbVars, status, csession, socketVars, inbox,
                  joinVars, sendVars, discVars, nreq, migration, query, tallyVars >>

\* createRoom: the existence query of the loop returns.  The code exists: the
\* next round draws a code, counts the attempt and throws beyond the bound,
\* else asks again.  The code does not exist: the INSERT is issued.
CreateRoomCheck(r) ==
  /\ http[r].pc = "check"
  /\ \E ok \in QueryOutcomes, draw \in Draws :
     /\ nfail' = IF ok THEN nfail ELSE nfail + 1
     /\ IF ~ok
        THEN RouteCatch(r, http[r], "query failed")
        ELSE IF Len(SelectRoomByCode(http[r].roomCode)) > 0
        THEN IF AttemptsExceeded(http[r].attempts + 1)
             THEN RouteCatch(r, [http[r] EXCEPT !.checks = @ + 1],
                             "Failed to generate unique room code")
             ELSE /\ http' = [http EXCEPT ![r] =
                                [@ EXCEPT !.roomCode = generateRoomCode(draw),
                                          !.attempts = @ + 1, !.checks = @ + 1]]
                  /\ UNCHANGED session
        ELSE /\ http' = [http EXCEPT ![r] =
                           [@ EXCEPT !.pc = "insert", !.checks = @ + 1]]
             /\ UNCHANGED session
  /\ UNCHANGED << dbVars, status, csession, socketVars, inbox,
                  joinVars, sendVars, discVars, nreq, migration, query, tallyVars >>

\* createRoom: the INSERT of the room returns; the INSERT of the creator's
\* participant row is issued
CreateRoomInsert(r) ==
  /\ http[r].pc = "insert"
  /\ \E ok \in QueryOutcomes :
     /\ nfail' = IF ok THEN nfail ELSE nfail + 1
     /\ IF ok /\ UniqueRoomCode(http[r].roomCode)
        THEN LET row == NewRoomRow(http[r].roomCode, http[r].userId)
             IN  /\ rooms' = Append(rooms, row)
                 /\ http' = [http EXCEPT ![r] =
                               [@ EXCEPT !.pc = "member", !.room = row,
                                         !.inserted.rooms = Append(@, row)]]
                 /\ UNCHANGED session
        ELSE /\ RouteCatch(r, http[r], IF ok THEN "duplicate key" ELSE "query failed")
             /\ UNCHANGED rooms
  /\ UNCHANGED << users, room_participants, room_messages, status, csession,
                  socketVars, inbox, joinVars, sendVars, discVars, nreq,
                  migration, query, tallyVars >>

\* createRoom: the INSERT of the participant row returns; createRoom returns
\* the room and the route redirects to /room/<code>
CreateRoomMember(r) ==
  /\ http[r].pc = "member"
  /\ \E ok \in QueryOutcomes :
     /\ nfail' = IF ok THEN nfail ELSE nfail + 1
     /\ IF ok /\ UniqueParticipant(http[r].room.id, http[r].userId)
        THEN LET table == InsertParticipant(http[r].room.id, http[r].userId)
             IN  /\ room_participants' = table
                 /\ http' = [http EXCEPT ![r] =
                               [@ EXCEPT !.pc = "done",
                                         !.redirect = <<"/room/", http[r].room.room_code>>,
                                         !.inserted.room_participants =
                                            Append(@, table[Len(table)])]]
                 /\ UNCHANGED session
        ELSE /\ RouteCatch(r, http[r], IF ok THEN "duplicate key" ELSE "query failed")
             /\ UNCHANGED room_participants
  /\ UNCHANGED << users, rooms, room_messages, status, csession,
                  socketVars, inbox, joinVars, sendVars, discVars, nreq,
                  migration, query, tallyVars >>

\* joinRoom of the route: the room query returns; no row throws
\* "Room not found"
PostJoinSelectRoom(r) ==
  /\ http[r].pc = "room"
  /\ \E ok \in QueryOutcomes :
     /\ nfail' = IF ok THEN nfail ELSE nfail + 1
     /\ LET roomResult == SelectActiveRoom(toUpperCase(http[r].roomCode))
        IN  IF ok /\ Len(roomResult) # 0
            THEN /\ http' = [http EXCEPT ![r] =
                               [@ EXCEPT !.pc = "existing", !.room = roomResult[1]]]
                 /\ UNCHANGED session
            ELSE RouteCatch(r, http[r], IF ok THEN "Room not found" ELSE "query failed")
  /\ UNCHANGED << dbVars, status, csession, socketVars, inbox,
                  joinVars, sendVars, discVars, nreq, migration, query, tallyVars >>

\* joinRoom of the route: the query for an existing participant row returns
PostJoinSelectExisting(r) ==
  /\ http[r].pc = "existing"
  /\ \E ok \in QueryOutcomes :
     /\ nfail' = IF ok THEN nfail ELSE nfail + 1
     /\ LET existingParticipant == SelectParticipant(http[r].room.id, http[r].userId)
        IN  IF ok
            THEN /\ http' = [http EXCEPT ![r] =
                               [@ EXCEPT !.pc =
                                  IF Len(existingParticipant) = 0
                                  THEN "join-insert" ELSE "join-update"]]
                 /\ UNCHANGED session
            ELSE RouteCatch(r, http[r], "query failed")
  /\ UNCHANGED << dbVars, status, csession, socketVars, inbox,
                  joinVars, sendVars, discVars, nreq, migration, query, tallyVars >>

\* joinRoom has returned: res.redirect(`/room/${roomCode.trim().toUpperCase()}`)
PostJoinDone(r) ==
  [http EXCEPT ![r] =
     [@ EXCEPT !.pc = "done",
               !.redirect = <<"/room/", toUpperCase(trim(http[r].input))>>]]

\* joinRoom of the route: the INSERT of the participant row returns
PostJoinInsert(r) ==
  /\ http[r].pc = "join-insert"
  /\ \E ok \in QueryOutcomes :
     /\ nfail' = IF ok THEN nfail ELSE nfail + 1
     /\ IF ok /\ UniqueParticipant(http[r].room.id, http[r].userId)
        THEN /\ room_participants' = InsertParticipant(http[r].room.id, http[r].userId)
             /\ http' = PostJoinDone(r)
             /\ UNCHANGED session
        ELSE /\ RouteCatch(r, http[r], IF ok THEN "duplicate key" ELSE "query failed")
             /\ UNCHANGED room_participants
  /\ UNCHANGED << users, rooms, room_messages, status, csession,
                  socketVars, inbox, joinVars, sendVars, discVars, nreq,
                  migration, query, tallyVars >>

\* joinRoom of the route: the UPDATE of the participant row returns
PostJoinUpdate(r) ==
  /\ http[r].pc = "join-update"
  /\ \E ok \in QueryOutcomes :
     /\ nfail' = IF ok THEN nfail ELSE nfail + 1
     /\ IF ok
        THEN /\ room_participants' = ReactivateParticipant(http[r].room.id, http[r].userId)
             /\ http' = PostJoinDone(r)
             /\ UNCHANGED session
        ELSE /\ RouteCatch(r, http[r], "query failed")
             /\ UNCHANGED room_participants
  /\ UNCHANGED << users, rooms, room_messages, status, csession,
                  socketVars, inbox, joinVars, sendVars, discVars, nreq,
                  migration, query, tallyVars >>

----------------------------------------------------------------------------
(* createDefaultRoomAndMigrate, called by initializeDatabase at startup     *)
(* without the server waiting for it.  Its catch branch logs the error.     *)

\* The function has returned, with or without an error in its catch branch:
\* initializeDatabase goes on and sets dbConnected = true.
MigrationReturns ==
  /\ migration' = "done"
  /\ dbConnected' = TRUE

\* the query for the default room returns
MigrationCheck ==
  /\ migration = "check"
  /\ \E ok \in QueryOutcomes :
     /\ nfail' = IF ok THEN nfail ELSE nfail + 1
     /\ IF ~ok
        THEN MigrationReturns
        ELSE /\ migration' = IF Len(SelectRoomByCode(BEER01)) = 0 THEN "insert"
                              ELSE "users"
             /\ UNCHANGED dbConnected
  /\ UNCHANGED << dbVars, session, status, csession, socketVars, inbox,
                  joinVars, sendVars, discVars, nreq, http, query,
                  beer_entries, beer_entries_id_seq, schema, user_type, room_id, leaderboard >>

\* (SELECT id FROM users LIMIT 1): the id of any user, NULL (0) without users
SelectAnyUser == IF users = {} THEN {0} ELSE {u.id : u \in users}

\* the INSERT of the default room returns; creator_id INTEGER NOT NULL refuses
\* the NULL of a users table without rows
MigrationInsert ==
  /\ migration = "insert"
  /\ \E ok \in QueryOutcomes, creator \in SelectAnyUser :
     /\ nfail' = IF ok THEN nfail ELSE nfail + 1
     /\ IF ok /\ UniqueRoomCode(BEER01) /\ creator # 0
        THEN /\ rooms' = Append(rooms, NewRoomRow(BEER01, creator))
             /\ migration' = "users"
             /\ UNCHANGED dbConnected
        ELSE /\ MigrationReturns
             /\ UNCHANGED rooms
  /\ UNCHANGED << users, room_participants, room_messages, session, status,
                  csession, socketVars, inbox, joinVars, sendVars, discVars,
                  nreq, http, query,
                  beer_entries, beer_entries_id_seq, schema, user_type, room_id, leaderboard >>

\* const defaultRoomId: the id of the row of the default room
defaultRoomId == SelectRoomByCode(BEER01)[1].id

\* UPDATE users SET room_id = $1 WHERE room_id IS NULL
MigrateUsers ==
  [id \in DOMAIN room_id |-> IF room_id[id] = 0 THEN defaultRoomId ELSE room_id[id]]

\* the UPDATE of the users returns
MigrationUsers ==
  /\ migration = "users"
  /\ \E ok \in QueryOutcomes :
     /\ nfail' = IF ok THEN nfail ELSE nfail + 1
     /\ room_id' = IF ok THEN MigrateUsers ELSE room_id
  /\ MigrationReturns
  /\ UNCHANGED << dbVars, session, status, csession, socketVars, inbox,
                  joinVars, sendVars, discVars, nreq, http, query,
                  beer_entries, beer_entries_id_seq, schema, user_type, leaderboard >>

\* The server process is started again on the same database:
\* let dbConnected = false, and initializeDatabase() runs.
Restart ==
  /\ migration = "done"
  /\ migration' = "check"
  /\ dbConnected' = FALSE
  /\ UNCHANGED << dbVars, session, status, csession, socketVars, inbox,
                  joinVars, sendVars, discVars, nreq, nfail, http, query,
                  beer_entries, beer_entries_id_seq, schema, user_type, room_id, leaderboard >>

----------------------------------------------------------------------------
Next ==
  \/ \E c \in Conns, s \in Sessions : Connect(c, s)
  \/ \E c \in Conns : ConnectionLookup(c)
  \/ \E c \in Conns, code \in CodeInputs : JoinRequest(c, code)
  \/ \E c \in Conns : JoinSelectRoom(c)
  \/ \E c \in Conns : JoinSelectExisting(c)
  \/ \E c \in Conns : JoinInsert(c)
  \/ \E c \in Conns : JoinUpdate(c)
  \/ \E c \in Conns : JoinGetMessages(c)
  \/ \E c \in Conns : JoinGetParticipants(c)
  \/ \E c \in Conns : JoinUpdateParticipants(c)
  \/ \E c \in Conns, message \in BodyInputs : SendRequest(c, message)
  \/ \E c \in Conns : SendInsert(c)
  \/ \E c \in Conns : SendSelectName(c)
  \/ \E c \in Conns : Disconnect(c)
  \/ \E c \in Conns : DisconnectGetParticipants(c)

Spec == Init /\ [][Next]_vars

\* The sockets from their opening on: the page script emits join-room as soon
\* as it has created the socket, before or after the server has registered
\* the handlers.
NextHandshake ==
  \/ \E c \in Conns, s \in Sessions : Connect(c, s)
  \/ \E c \in Conns : ConnectionLookup(c)
  \/ \E c \in Conns, code \in CodeInputs : JoinRequestUnheard(c, code)
  \/ \E c \in Conns, code \in CodeInputs : JoinRequest(c, code)
  \/ \E c \in Conns : JoinSelectRoom(c)
  \/ \E c \in Conns : JoinSelectExisting(c)
  \/ \E c \in Conns : JoinInsert(c)
  \/ \E c \in Conns : JoinUpdate(c)
  \/ \E c \in Conns : JoinGetMessages(c)
  \/ \E c \in Conns : JoinGetParticipants(c)
  \/ \E c \in Conns : JoinUpdateParticipants(c)

\* every query the server awaits returns, with rows or with an error
QueriesReturn ==
  \A c \in Conns :
    /\ WF_vars(ConnectionLookup(c))
    /\ WF_vars(JoinSelectRoom(c))
    /\ WF_vars(JoinSelectExisting(c))
    /\ WF_vars(JoinInsert(c))
    /\ WF_vars(JoinUpdate(c))
    /\ WF_vars(JoinGetMessages(c))
    /\ WF_vars(JoinGetParticipants(c))
    /\ WF_vars(JoinUpdateParticipants(c))

SpecHandshake == Init /\ [][NextHandshake]_vars /\ QueriesReturn

\* the identity resolver: /set-name and the handshake of the sockets
NextIdentity ==
  \/ \E s \in Sessions, name \in NameInputs : SetName(s, name)
  \/ \E c \in Conns, s \in Sessions : Connect(c, s)
  \/ \E c \in Conns : ConnectionLookup(c)
  \/ \E c \in Conns : Disconnect(c)

SpecIdentity == InitIdentity /\ [][NextIdentity]_vars

\* Alice on c1 and then Bob on c2 have connected and joined BEER01; their
\* clients have got the events of the two joins, and no handler is running.
BothJoined ==
  LET alice == [id |-> 1, name |-> "Alice"]
      bob   == [id |-> 2, name |-> "Bob"]
      room  == [id |-> 1, room_code |-> BEER01, is_active |-> TRUE, creator_id |-> 1]
  IN
  /\ users = { [id |-> 1, session_id |-> "s1", name |-> "Alice"],
               [id |-> 2, session_id |-> "s2", name |-> "Bob"] }
  /\ rooms = << room,
                [id |-> 2, room_code |-> Q7K2P9, is_active |-> TRUE, creator_id |-> 1] >>
  /\ room_participants =
       << [room_id |-> 2, user_id |-> 1, is_active |-> TRUE, joined_at |-> 1],
          [room_id |-> 1, user_id |-> 1, is_active |-> TRUE, joined_at |-> 2],
          [room_id |-> 1, user_id |-> 2, is_active |-> TRUE, joined_at |-> 3] >>
  /\ room_messages = <<>>
  /\ session = [s \in Sessions |->
                  [userId |-> getOrCreateUser(s).id, message |-> "", error |-> ""]]
  /\ status = [c \in Conns |-> "authed"]
  /\ csession = [c \in Conns |-> IF c = "c1" THEN "s1" ELSE "s2"]
  /\ socketUserId = [c \in Conns |-> IF c = "c1" THEN 1 ELSE 2]
  /\ socketRoomId = [c \in Conns |-> 1]
  /\ socketRoomCode = [c \in Conns |-> BEER01]
  /\ socketRooms = [c \in Conns |-> {BEER01}]
  /\ inbox =
       [c \in Conns |->
          IF c = "c1"
          THEN << RoomJoinedEvent("c1", room, <<>>, << alice >>),
                  ParticipantsEvent("c1", BEER01, << alice >>),
                  UserEvent("user-joined", "c2", BEER01, 2),
                  ParticipantsEvent("c2", BEER01, << alice, bob >>) >>
          ELSE << RoomJoinedEvent("c2", room, <<>>, << alice, bob >>),
                  ParticipantsEvent("c2", BEER01, << alice, bob >>) >>]
  /\ jpc = [c \in Conns |-> "idle"]
  /\ jarg = [c \in Conns |-> <<>>]
  /\ jroom = [c \in Conns |-> NoRoom]
  /\ jmessages = [c \in Conns |-> <<>>]
  /\ jeffect = [c \in Conns |-> FALSE]
  /\ spc = [c \in Conns |-> "idle"]
  /\ sroomId = [c \in Conns |-> 0]
  /\ sbody = [c \in Conns |-> <<>>]
  /\ ssaved = [c \in Conns |-> NoMessage]
  /\ dpc = [c \in Conns |-> "idle"]
  /\ droomId = [c \in Conns |-> 0]
  /\ nfail = 0
  /\ InitRoutes

\* the chat of the two from there on; the requests are counted from here
InitChat == BothJoined /\ nreq = 0

NextChat ==
  \/ \E c \in Conns, message \in BodyInputs : SendRequest(c, message)
  \/ \E c \in Conns : SendInsert(c)
  \/ \E c \in Conns : SendSelectName(c)
  \/ \E c \in Conns : Disconnect(c)
  \/ \E c \in Conns : DisconnectGetParticipants(c)

SpecChat == InitChat /\ [][NextChat]_vars

\* Alice on c1 has connected and joined BEER01 and has got the events of her
\* join; Bob on c2 has connected and has joined no room; no handler is running.
AliceJoined ==
  LET alice == [id |-> 1, name |-> "Alice"]
      room  == [id |-> 1, room_code |-> BEER01, is_active |-> TRUE, creator_id |-> 1]
  IN
  /\ users = { [id |-> 1, session_id |-> "s1", name |-> "Alice"],
               [id |-> 2, session_id |-> "s2", name |-> "Bob"] }
  /\ rooms = << room,
                [id |-> 2, room_code |-> Q7K2P9, is_active |-> TRUE, creator_id |-> 1] >>
  /\ room_participants =
       << [room_id |-> 2, user_id |-> 1, is_active |-> TRUE, joined_at |-> 1],
          [room_id |-> 1, user_id |-> 1, is_active |-> TRUE, joined_at |-> 2] >>
  /\ room_messages = <<>>
  /\ session = [s \in Sessions |->
                  [userId |-> getOrCreateUser(s).id, message |-> "", error |-> ""]]
  /\ status = [c \in Conns |-> "authed"]
  /\ csession = [c \in Conns |-> IF c = "c1" THEN "s1" ELSE "s2"]
  /\ socketUserId = [c \in Conns |-> IF c = "c1" THEN 1 ELSE 2]
  /\ socketRoomId = [c \in Conns |-> IF c = "c1" THEN 1 ELSE 0]
  /\ socketRoomCode = [c \in Conns |-> IF c = "c1" THEN BEER01 ELSE <<>>]
  /\ socketRooms = [c \in Conns |-> IF c = "c1" THEN {BEER01} ELSE {}]
  /\ inbox =
       [c \in Conns |->
          IF c = "c1"
          THEN << RoomJoinedEvent("c1", room, <<>>, << alice >>),
                  ParticipantsEvent("c1", BEER01, << alice >>) >>
          ELSE <<>>]
  /\ jpc = [c \in Conns |-> "idle"]
  /\ jarg = [c \in Conns |-> <<>>]
  /\ jroom = [c \in Conns |-> NoRoom]
  /\ jmessages = [c \in Conns |-> <<>>]
  /\ jeffect = [c \in Conns |-> FALSE]
  /\ spc = [c \in Conns |-> "idle"]
  /\ sroomId = [c \in Conns |-> 0]
  /\ sbody = [c \in Conns |-> <<>>]
  /\ ssaved = [c \in Conns |-> NoMessage]
  /\ dpc = [c \in Conns |-> "idle"]
  /\ droomId = [c \in Conns |-> 0]
  /\ nfail = 0
  /\ InitRoutes

\* the joins and the sends of the two from there on; the requests are counted
\* from here
InitLive == AliceJoined /\ nreq = 0

NextLive ==
  \/ \E c \in Conns, code \in CodeInputs : JoinRequest(c, code)
  \/ \E c \in Conns : JoinSelectRoom(c)
  \/ \E c \in Conns : JoinSelectExisting(c)
  \/ \E c \in Conns : JoinInsert(c)
  \/ \E c \in Conns : JoinUpdate(c)
  \/ \E c \in Conns : JoinGetMessages(c)
  \/ \E c \in Conns : JoinGetParticipants(c)
  \/ \E c \in Conns : JoinUpdateParticipants(c)
  \/ \E c \in Conns, message \in BodyInputs : SendRequest(c, message)
  \/ \E c \in Conns : SendInsert(c)
  \/ \E c \in Conns : SendSelectName(c)

SpecLive == InitLive /\ [][NextLive]_vars

----------------------------------------------------------------------------
(* A user changes the name (server.mjs, POST /setname) while the chat goes  *)
(* on.                                                                      *)

\* names posted to /setname: blank, a new name in blanks, a name that is too
\* long
RenameInputs ==
  { <<" ", " ">>, <<" ", "A", "l", " ">>, [i \in 1..(MaxNameLength + 1) |-> "x"] }

\* the characters of an input as the text the column holds
RECURSIVE NameString(_)
NameString(input) ==
  IF input = <<>> THEN "" ELSE Head(input) \o NameString(Tail(input))

\* the statement on a table without UNIQUE (session_id): a row is added
Upsert_insert(s, name) ==
  users \cup {[id |-> Cardinality(users) + 1, session_id |-> s, name |-> name]}

\* INSERT INTO users (session_id, name) VALUES ($1, $2)
\* ON CONFLICT (session_id) DO UPDATE SET name = $2; a new row gets an id of
\* the sequence that no row has
Upsert(s, name) ==
  IF \E u \in users : u.session_id = s
  THEN {IF u.session_id = s THEN [u EXCEPT !.name = name] ELSE u : u \in users}
  ELSE users \cup {[id |-> Cardinality(users) + 1, session_id |-> s, name |-> name]}

\* POST /setname: without the database, or with a name that is empty after
\* trim().slice(0, 30), the route only redirects; else the statement returns.
\* A new row of users gets the defaults of its other columns.
SetNameUpsert(s, input) ==
  /\ dbConnected
  /\ Len(Take(trim(input), MaxNameLength)) # 0
  /\ \E ok \in QueryOutcomes :
     /\ nfail' = IF ok THEN nfail ELSE nfail + 1
     /\ users' = IF ok THEN Upsert(s, NameString(Take(trim(input), MaxNameLength)))
                 ELSE users
  /\ user_type' = [id \in {u.id : u \in users'} |->
                     IF id \in DOMAIN user_type THEN user_type[id] ELSE "participant"]
  /\ room_id' = [id \in {u.id : u \in users'} |->
                   IF id \in DOMAIN room_id THEN room_id[id] ELSE 0]
  /\ UNCHANGED << rooms, room_participants, room_messages, session, status,
                  csession, socketVars, inbox, joinVars, sendVars, discVars,
                  nreq, routeVars, beer_entries, beer_entries_id_seq, schema,
                  dbConnected, leaderboard >>

\* Alice on c1 writes and changes her name; Bob on c2 joins and joins again
NextRename ==
  \/ \E input \in RenameInputs : SetNameUpsert("s1", input)
  \/ \E code \in CodeInputs : JoinRequest("c2", code)
  \/ JoinSelectRoom("c2")
  \/ JoinSelectExisting("c2")
  \/ JoinInsert("c2")
  \/ JoinUpdate("c2")
  \/ JoinGetMessages("c2")
  \/ JoinGetParticipants("c2")
  \/ JoinUpdateParticipants("c2")
  \/ \E message \in BodyInputs : SendRequest("c1", message)
  \/ SendInsert("c1")
  \/ SendSelectName("c1")

SpecRename == InitChat /\ [][NextRename]_vars
----------------------------------------------------------------------------
(* The query functions over any table.  ORDER BY fixes the order of rows    *)
(* with different timestamps only; rows with equal timestamps come in any   *)
(* order.                                                                   *)

\* a query without its LIMIT
Limit_none(s, n) == s

\* LIMIT n
Limit(s, n) == Take(s, n)

\* ORDER BY column DESC: the orders the rows of S may come in
RECURSIVE OrderByDesc(_, _)
OrderByDesc(S, column) ==
  IF S = {} THEN { <<>> }
  ELSE LET top == {x \in S : \A y \in S : y[column] <= x[column]}
       IN  UNION { { <<x>> \o o : o \in OrderByDesc(S \ {x}, column) } : x \in top }

\* ORDER BY column ASC
OrderByAsc(S, column) == { Reverse(o) : o \in OrderByDesc(S, column) }

\* what getRoomMessages(roomId, limit) may return: the rows rm.* of the
\* room, ORDER BY created_at DESC LIMIT limit, reversed
getRoomMessagesRows(roomId, limit) ==
  LET ofRoom == {room_messages[i] : i \in {k \in DOMAIN room_messages :
                                             room_messages[k].room_id = roomId}}
  IN  { Reverse(Limit(o, limit)) : o \in OrderByDesc(ofRoom, "created_at") }

\* what getRoomParticipants(roomId) may return: u.id, u.name of the active
\* rows of the room, ORDER BY joined_at ASC
getRoomParticipantsRows(roomId) ==
  LET active == {room_participants[i] :
                   i \in {k \in DOMAIN room_participants :
                            /\ room_participants[k].room_id = roomId
                            /\ room_participants[k].is_active
                            /\ \E u \in users : u.id = room_participants[k].user_id}}
  IN  { [i \in DOMAIN o |-> [id |-> o[i].user_id, name |-> UserName(o[i].user_id)]] :
          o \in OrderByAsc(active, "joined_at") }

\* limits the history is asked with
LimitInputs == {0, 1, 2, HistoryLimit}

\* the message tables of up to n rows, over two rooms, without and with
\* equal creation times
RECURSIVE MessageTables(_)
MessageTables(n) ==
  IF n = 0 THEN { <<>> }
  ELSE LET shorter == MessageTables(n - 1)
       IN  shorter \cup
           { Append(t, [id |-> Len(t) + 1, room_id |-> roomId, user_id |-> 1,
                        message |-> << [ch |-> "h", n |-> 1] >>,
                        created_at |-> IF t = <<>> THEN 1
                                       ELSE t[Len(t)].created_at + dt]) :
               t \in {u \in shorter : Len(u) = n - 1},
               roomId \in {1, 2}, dt \in {0, 1} }

\* a message table of n rows with more than HistoryLimit rows of room 1
LongMessageTable(n) ==
  [i \in 1..n |-> [id |-> i, room_id |-> IF i % 10 = 0 THEN 2 ELSE 1,
                   user_id |-> 1, message |-> << [ch |-> "h", n |-> 1] >>,
                   created_at |-> i]]

\* the membership tables of three users in room 1 and of user 1 in room 2:
\* every row absent, active or inactive, joined at time 1 or 2
ParticipantTables ==
  LET pairs == << <<1, 1>>, <<1, 2>>, <<1, 3>>, <<2, 1>> >>
      kinds == {"absent", "active", "inactive"}
      choices == [DOMAIN pairs -> kinds \X {1, 2}]
      rowsOf(ch) == { [room_id |-> pairs[k][1], user_id |-> pairs[k][2],
                       is_active |-> ch[k][1] = "active", joined_at |-> ch[k][2]] :
                        k \in {j \in DOMAIN pairs : ch[j][1] # "absent"} }
  IN  { CHOOSE o \in OrderByAsc(rowsOf(ch), "joined_at") : TRUE : ch \in choices }

\* A database with any of these tables and a server at rest.
InitQueries ==
  /\ users = { [id |-> 1, session_id |-> "s1", name |-> "Alice"],
               [id |-> 2, session_id |-> "s2", name |-> "Bob"],
               [id |-> 3, session_id |-> "s3", name |-> "Carol"] }
  /\ rooms = << [id |-> 1, room_code |-> BEER01, is_active |-> TRUE, creator_id |-> 1],
                [id |-> 2, room_code |-> Q7K2P9, is_active |-> TRUE, creator_id |-> 1] >>
  /\ \/ /\ room_messages \in MessageTables(MaxRows)
                               \cup { LongMessageTable(HistoryLimit + 1),
                                      LongMessageTable(HistoryLimit + 11) }
        /\ room_participants = <<>>
     \/ /\ room_messages = <<>>
        /\ room_participants \in ParticipantTables
  /\ InitSockets
  /\ session = [s \in Sessions |->
                  [userId |-> getOrCreateUser(s).id, message |-> "", error |-> ""]]
  /\ InitRoutes

\* getRoomMessages(roomId, limit) is called and returns
QueryMessages(roomId, limit) ==
  /\ \E rows \in getRoomMessagesRows(roomId, limit) :
       query' = [fn |-> "getRoomMessages", roomId |-> roomId, limit |-> limit,
                 rows |-> rows]
  /\ UNCHANGED << dbVars, session, status, csession, socketVars, inbox,
                  joinVars, sendVars, discVars, nreq, nfail, http, migration, tallyVars >>

\* getRoomParticipants(roomId) is called and returns
QueryParticipants(roomId) ==
  /\ \E rows \in getRoomParticipantsRows(roomId) :
       query' = [fn |-> "getRoomParticipants", roomId |-> roomId, limit |-> 0,
                 rows |-> rows]
  /\ UNCHANGED << dbVars, session, status, csession, socketVars, inbox,
                  joinVars, sendVars, discVars, nreq, nfail, http, migration, tallyVars >>

NextQueries ==
  \/ \E roomId \in {1, 2}, limit \in LimitInputs : QueryMessages(roomId, limit)
  \/ \E roomId \in {1, 2} : QueryParticipants(roomId)

SpecQueries == InitQueries /\ [][NextQueries]_vars

----------------------------------------------------------------------------
(* The leaderboard.  getLeaderboard builds the text of its two queries from *)
(* a template; the text between the join condition "ON u.id = be.user_id"   *)
(* and GROUP BY is kept as the words it is made of, and the database parses *)
(* and evaluates these words.                                               *)

\* a comparison of a column of users with a text or with a parameter
Cond(column, text, param) ==
  [kind |-> "cond", column |-> column, text |-> text, param |-> param]

\* a keyword
Word(w) == [kind |-> w, column |-> "", text |-> "", param |-> 0]

\* let whereClause = ""; if (roomId) whereClause = "WHERE u.room_id = $1"
whereClause(roomId) ==
  IF roomId # 0 THEN << Word("WHERE"), Cond("room_id", "", roomId) >> ELSE <<>>

\* ${whereClause} ${roomId ? "" : "AND"} u.user_type = '...'
LeaderboardClauses(roomId, type) ==
  whereClause(roomId)
    \o (IF roomId # 0 THEN <<>> ELSE << Word("AND") >>)
    \o << Cond("user_type", type, 0) >>

\* SQL after a join condition: AND or WHERE, then a comparison, and so on;
\* WHERE at most once
RECURSIVE Alternates(_, _)
Alternates(words, expect) ==
  IF words = <<>> THEN expect = "keyword"
  ELSE IF expect = "cond"
       THEN Head(words).kind = "cond" /\ Alternates(Tail(words), "keyword")
       ELSE Head(words).kind \in {"AND", "WHERE"} /\ Alternates(Tail(words), "cond")

Parses(words) ==
  /\ Alternates(words, "keyword")
  /\ Cardinality({i \in DOMAIN words : words[i].kind = "WHERE"}) <= 1

\* the comparisons that belong to the join condition: those before WHERE
OnConds(words) ==
  {words[i] : i \in {k \in DOMAIN words :
                       /\ words[k].kind = "cond"
                       /\ \A j \in 1..k : words[j].kind # "WHERE"}}

\* the comparisons of the WHERE clause
WhereConds(words) ==
  {words[i] : i \in {k \in DOMAIN words :
                       /\ words[k].kind = "cond"
                       /\ \E j \in 1..k : words[j].kind = "WHERE"}}

\* a comparison holds of a row of users
Holds(cond, u) ==
  IF cond.column = "room_id" THEN room_id[u.id] = cond.param
  ELSE user_type[u.id] = cond.text

\* SELECT u.name, COUNT(be.id) FROM users u LEFT JOIN beer_entries be ON ...
\* WHERE ... GROUP BY u.id, u.name ORDER BY count DESC: every user the WHERE
\* clause keeps, with the number of the entries the join condition gives
LeaderboardRows(words) ==
  LET kept == {u \in users : \A c \in WhereConds(words) : Holds(c, u)}
      joined(u) == {i \in DOMAIN beer_entries :
                      /\ beer_entries[i].user_id = u.id
                      /\ \A c \in OnConds(words) : Holds(c, u)}
      grouped == {[id |-> u.id, name |-> u.name, count |-> Cardinality(joined(u))] :
                    u \in kept}
  IN  { [i \in DOMAIN o |-> [name |-> o[i].name, count |-> o[i].count]] :
          o \in OrderByDesc(grouped, "count") }

\* the beer tables of up to n rows of the users, without and with equal
\* creation times
RECURSIVE BeerTables(_, _)
BeerTables(n, ids) ==
  IF n = 0 THEN { <<>> }
  ELSE LET shorter == BeerTables(n - 1, ids)
       IN  shorter \cup
           { Append(t, [id |-> Len(t) + 1, user_id |-> userId,
                        created_at |-> IF t = <<>> THEN 1
                                       ELSE t[Len(t)].created_at + dt]) :
               t \in {u \in shorter : Len(u) = n - 1},
               userId \in ids, dt \in {0, 1} }

\* Three users of either type, each in no room or in one of two rooms, and
\* any beer table; the server at rest.
InitLeaderboard ==
  /\ users = { [id |-> 1, session_id |-> "s1", name |-> "Alice"],
               [id |-> 2, session_id |-> "s2", name |-> "Bob"],
               [id |-> 3, session_id |-> "s3", name |-> "Carol"] }
  /\ rooms = << [id |-> 1, room_code |-> BEER01, is_active |-> TRUE, creator_id |-> 1],
                [id |-> 2, room_code |-> Q7K2P9, is_active |-> TRUE, creator_id |-> 1] >>
  /\ room_participants = <<>>
  /\ room_messages = <<>>
  /\ InitSockets
  /\ session = [s \in Sessions |->
                  [userId |-> getOrCreateUser(s).id, message |-> "", error |-> ""]]
  /\ http = [r \in Reqs |-> NoRequest]
  /\ migration = "done"
  /\ query = NoQuery
  /\ beer_entries \in BeerTables(MaxBeers, {u.id : u \in users})
  /\ beer_entries_id_seq = Len(beer_entries)
  /\ schema = Relations
  /\ user_type \in [{u.id : u \in users} -> {"participant", "observer"}]
  /\ room_id \in [{u.id : u \in users} -> {0, 1, 2}]
  /\ dbConnected = TRUE
  /\ leaderboard = NoLeaderboard

\* getLeaderboard(roomId) is called and returns or throws: a query whose text
\* does not parse is refused by the database, and pool.query rejects
QueryLeaderboard(roomId) ==
  /\ \E ok \in QueryOutcomes :
     /\ nfail' = IF ok THEN nfail ELSE nfail + 1
     /\ IF ~ok
        THEN leaderboard' = [called |-> TRUE, roomId |-> roomId,
                             error |-> "connection",
                             participants |-> <<>>, observers |-> <<>>]
        ELSE IF ~Parses(LeaderboardClauses(roomId, "participant"))
        THEN leaderboard' = [called |-> TRUE, roomId |-> roomId,
                             error |-> "syntax error",
                             participants |-> <<>>, observers |-> <<>>]
        ELSE \E p \in LeaderboardRows(LeaderboardClauses(roomId, "participant")),
                o \in LeaderboardRows(LeaderboardClauses(roomId, "observer")) :
               leaderboard' = [called |-> TRUE, roomId |-> roomId, error |-> "",
                               participants |-> p, observers |-> o]
  /\ UNCHANGED << dbVars, session, status, csession, socketVars, inbox,
                  joinVars, sendVars, discVars, nreq, http, migration, query,
                  beer_entries, beer_entries_id_seq, schema, user_type, room_id, dbConnected >>

NextLeaderboard == \E roomId \in {0, 1, 2} : QueryLeaderboard(roomId)

SpecLeaderboard == InitLeaderboard /\ [][NextLeaderboard]_vars

----------------------------------------------------------------------------
(* The beer tally (server.mjs): POST /add and POST /remove.  Each route     *)
(* awaits the user of the session and then one statement; a statement of    *)
(* the database is one step.                                                *)

\* A request arrives.  Without the database the route redirects to "/";
\* else it awaits getOrCreateUser(req.session.id).
TallyRequest(r, route, s) ==
  /\ http[r].pc = "idle"
  /\ \A q \in Reqs : Earlier(q, r) => http[q].pc # "idle"
  /\ http' = [http EXCEPT ![r] =
                IF ~dbConnected
                THEN [NoRequest EXCEPT !.pc = "done", !.route = route,
                                       !.sessionId = s, !.redirect = <<"/">>]
                ELSE [NoRequest EXCEPT !.pc = "tally-user", !.route = route,
                                       !.sessionId = s]]
  /\ UNCHANGED << dbVars, session, status, csession, socketVars, inbox,
                  joinVars, sendVars, discVars, nreq, nfail, migration, query,
                  tallyVars >>

\* the catch branch of a tally route: res.status(500).send("Server error")
TallyCatch(r) ==
  http' = [http EXCEPT ![r] = [@ EXCEPT !.pc = "failed", !.error = "Server error"]]

\* The user lookup returns.  No user: redirect to "/".  Else the route sends
\* its statement.
TallyLookupUser(r) ==
  /\ http[r].pc = "tally-user"
  /\ \E ok \in QueryOutcomes :
     /\ nfail' = IF ok THEN nfail ELSE nfail + 1
     /\ LET user == getOrCreateUser(http[r].sessionId)
        IN  IF ~ok THEN TallyCatch(r)
            ELSE IF user = NoUser
            THEN http' = [http EXCEPT ![r] =
                            [@ EXCEPT !.pc = "done", !.redirect = <<"/">>]]
            ELSE http' = [http EXCEPT ![r] =
                            [@ EXCEPT !.userId = user.id,
                                      !.pc = IF http[r].route = "add"
                                             THEN "insert-beer"
                                             ELSE "delete-beer"]]
  /\ UNCHANGED << dbVars, session, status, csession, socketVars, inbox,
                  joinVars, sendVars, discVars, nreq, migration, query,
                  tallyVars >>

\* INSERT INTO beer_entries (user_id) VALUES ($1) returns: id SERIAL,
\* created_at DEFAULT CURRENT_TIMESTAMP; redirect to "/"
AddInsert(r) ==
  /\ http[r].pc = "insert-beer"
  /\ \E ok \in QueryOutcomes :
     /\ nfail' = IF ok THEN nfail ELSE nfail + 1
     /\ IF ok
        THEN /\ beer_entries' =
                  Append(beer_entries,
                         [id |-> beer_entries_id_seq + 1,
                          user_id |-> http[r].userId,
                          created_at |-> Now(beer_entries, "created_at")])
             /\ beer_entries_id_seq' = beer_entries_id_seq + 1
             /\ http' = [http EXCEPT ![r] =
                           [@ EXCEPT !.pc = "done", !.redirect = <<"/">>]]
        ELSE /\ TallyCatch(r)
             /\ UNCHANGED << beer_entries, beer_entries_id_seq >>
  /\ UNCHANGED << dbVars, session, status, csession, socketVars, inbox,
                  joinVars, sendVars, discVars, nreq, migration, query,
                  schema, user_type, room_id, dbConnected, leaderboard >>

\* the statement that takes any entry of the user
MostRecentEntry_any(userId) ==
  {i \in DOMAIN beer_entries : beer_entries[i].user_id = userId}

\* SELECT id FROM beer_entries WHERE user_id = $1 ORDER BY created_at DESC
\* LIMIT 1: the rows it may give, none when the user has no entry
MostRecentEntry(userId) ==
  {i \in DOMAIN beer_entries :
     /\ beer_entries[i].user_id = userId
     /\ \A j \in DOMAIN beer_entries :
          beer_entries[j].user_id = userId
            => beer_entries[j].created_at <= beer_entries[i].created_at}

\* the table without its row i
DeleteRow(table, i) == SubSeq(table, 1, i - 1) \o SubSeq(table, i + 1, Len(table))

\* DELETE FROM beer_entries WHERE id = (SELECT ...) returns; redirect to "/"
RemoveDelete(r) ==
  /\ http[r].pc = "delete-beer"
  /\ \E ok \in QueryOutcomes :
     /\ nfail' = IF ok THEN nfail ELSE nfail + 1
     /\ IF ok
        THEN /\ IF MostRecentEntry(http[r].userId) = {}
                THEN UNCHANGED beer_entries
                ELSE \E i \in MostRecentEntry(http[r].userId) :
                       beer_entries' = DeleteRow(beer_entries, i)
             /\ http' = [http EXCEPT ![r] =
                           [@ EXCEPT !.pc = "done", !.redirect = <<"/">>]]
        ELSE /\ TallyCatch(r)
             /\ UNCHANGED beer_entries
  /\ UNCHANGED << dbVars, session, status, csession, socketVars, inbox,
                  joinVars, sendVars, discVars, nreq, migration, query,
                  beer_entries_id_seq, schema, user_type, room_id, dbConnected,
                  leaderboard >>

\* Alice and Bob have set their names, the third session has not; any beer
\* table; the database is connected or not.
InitBeer ==
  /\ users = { [id |-> 1, session_id |-> "s1", name |-> "Alice"],
               [id |-> 2, session_id |-> "s2", name |-> "Bob"] }
  /\ rooms = <<>>
  /\ room_participants = <<>>
  /\ room_messages = <<>>
  /\ InitSockets
  /\ session = [s \in Sessions |->
                  [userId |-> getOrCreateUser(s).id, message |-> "", error |-> ""]]
  /\ http = [r \in Reqs |-> NoRequest]
  /\ migration = "done"
  /\ query = NoQuery
  /\ beer_entries \in BeerTables(MaxBeers, {u.id : u \in users})
  /\ beer_entries_id_seq = Len(beer_entries)
  /\ schema = Relations
  /\ user_type = [id \in {u.id : u \in users} |-> "participant"]
  /\ room_id = [id \in {u.id : u \in users} |-> 0]
  /\ dbConnected \in BOOLEAN
  /\ leaderboard = NoLeaderboard

NextBeer ==
  \/ \E r \in Reqs, route \in {"add", "remove"}, s \in Sessions :
       TallyRequest(r, route, s)
  \/ \E r \in Reqs : TallyLookupUser(r)
  \/ \E r \in Reqs : AddInsert(r)
  \/ \E r \in Reqs : RemoveDelete(r)

SpecBeer == InitBeer /\ [][NextBeer]_vars

----------------------------------------------------------------------------
(* The tally server (server.mjs) from its start: initializeDatabase creates *)
(* the tables and indexes one statement after the other while the routes    *)
(* /setname, /add and /remove already take requests.                        *)

\* names posted to /setname
SetNameInputs == NameInputs \cup RenameInputs

\* the place of a statement in initializeDatabase
StatementNo(relation) == CHOOSE k \in DOMAIN Statements : Statements[k] = relation

\* A CREATE TABLE / CREATE INDEX ... IF NOT EXISTS of initializeDatabase
\* returns: the next statement is sent, or after the last one dbConnected is
\* set.  A failed statement ends initializeDatabase in its catch branch.
InitializeCreate ==
  /\ migration \in Relations
  /\ \E ok \in QueryOutcomes :
     /\ nfail' = IF ok THEN nfail ELSE nfail + 1
     /\ IF ok
        THEN /\ schema' = schema \cup {migration}
             /\ IF StatementNo(migration) = Len(Statements)
                THEN migration' = "done" /\ dbConnected' = TRUE
                ELSE /\ migration' = Statements[StatementNo(migration) + 1]
                     /\ UNCHANGED dbConnected
        ELSE /\ migration' = "failed"
             /\ dbConnected' = FALSE
             /\ UNCHANGED schema
  /\ UNCHANGED << dbVars, session, status, csession, socketVars, inbox,
                  joinVars, sendVars, discVars, nreq, http, query,
                  beer_entries, beer_entries_id_seq, user_type, room_id,
                  leaderboard >>

\* the route that goes on without the database
SetNameRequest_nocheck(r, s, input) ==
  /\ http[r].pc = "idle"
  /\ \A q \in Reqs : Earlier(q, r) => http[q].pc # "idle"
  /\ http' = [http EXCEPT ![r] =
                IF Take(trim(input), MaxNameLength) = <<>>
                THEN [NoRequest EXCEPT !.pc = "done", !.route = "setname",
                                       !.sessionId = s, !.input = input,
                                       !.redirect = <<"/">>]
                ELSE [NoRequest EXCEPT !.pc = "upsert", !.route = "setname",
                                       !.sessionId = s, !.input = input]]
  /\ UNCHANGED << dbVars, session, status, csession, socketVars, inbox,
                  joinVars, sendVars, discVars, nreq, nfail, migration, query,
                  tallyVars >>

\* POST /setname arrives.  Without the database, or with a name that is
\* empty after trim().slice(0, 30), the route redirects to "/"; else it
\* awaits its statement.
SetNameRequest(r, s, input) ==
  /\ http[r].pc = "idle"
  /\ \A q \in Reqs : Earlier(q, r) => http[q].pc # "idle"
  /\ http' = [http EXCEPT ![r] =
                IF ~dbConnected \/ Take(trim(input), MaxNameLength) = <<>>
                THEN [NoRequest EXCEPT !.pc = "done", !.route = "setname",
                                       !.sessionId = s, !.input = input,
                                       !.redirect = <<"/">>]
                ELSE [NoRequest EXCEPT !.pc = "upsert", !.route = "setname",
                                       !.sessionId = s, !.input = input]]
  /\ UNCHANGED << dbVars, session, status, csession, socketVars, inbox,
                  joinVars, sendVars, discVars, nreq, nfail, migration, query,
                  tallyVars >>

\* The statement of /setname returns, with const name of the route as its
\* parameter; a new row of users gets the defaults of its other columns.
SetNameQuery(r) ==
  /\ http[r].pc = "upsert"
  /\ \E ok \in QueryOutcomes :
     /\ nfail' = IF ok THEN nfail ELSE nfail + 1
     /\ IF ok
        THEN /\ users' = Upsert(http[r].sessionId,
                                NameString(Take(trim(http[r].input), MaxNameLength)))
             /\ http' = [http EXCEPT ![r] =
                           [@ EXCEPT !.pc = "done", !.redirect = <<"/">>]]
        ELSE /\ TallyCatch(r)
             /\ UNCHANGED users
  /\ user_type' = [id \in {u.id : u \in users'} |->
                     IF id \in DOMAIN user_type THEN user_type[id] ELSE "participant"]
  /\ room_id' = [id \in {u.id : u \in users'} |->
                   IF id \in DOMAIN room_id THEN room_id[id] ELSE 0]
  /\ UNCHANGED << rooms, room_participants, room_messages, session, status,
                  csession, socketVars, inbox, joinVars, sendVars, discVars,
                  nreq, migration, query, beer_entries, beer_entries_id_seq,
                  schema, dbConnected, leaderboard >>

\* the schemas a start may find: an index only with its table
Schemas ==
  {sch \in SUBSET Relations :
     /\ "idx_users_session_id" \in sch => "users" \in sch
     /\ "idx_beer_entries_user_id" \in sch => "beer_entries" \in sch
     /\ "idx_beer_entries_created_at" \in sch => "beer_entries" \in sch
     /\ "beer_entries" \in sch => "users" \in sch}

\* The process has just started on a database an earlier run may have left:
\* any schema, in the tables that exist no rows or those of Alice and Bob and
\* any beer table; initializeDatabase awaits its first statement.
InitServer ==
  /\ schema \in Schemas
  /\ users \in { {} } \cup
       (IF "users" \in schema
        THEN { { [id |-> 1, session_id |-> "s1", name |-> "Alice"],
                 [id |-> 2, session_id |-> "s2", name |-> "Bob"] } }
        ELSE {})
  /\ rooms = <<>>
  /\ room_participants = <<>>
  /\ room_messages = <<>>
  /\ InitSockets
  /\ session = [s \in Sessions |->
                  [userId |-> getOrCreateUser(s).id, message |-> "", error |-> ""]]
  /\ http = [r \in Reqs |-> NoRequest]
  /\ migration = Statements[1]
  /\ query = NoQuery
  /\ beer_entries \in IF "beer_entries" \in schema
                       THEN BeerTables(MaxBeers, {u.id : u \in users})
                       ELSE { <<>> }
  /\ beer_entries_id_seq = Len(beer_entries)
  /\ user_type = [id \in {u.id : u \in users} |-> "participant"]
  /\ room_id = [id \in {u.id : u \in users} |-> 0]
  /\ dbConnected = FALSE
  /\ leaderboard = NoLeaderboard

NextServer ==
  \/ InitializeCreate
  \/ \E r \in Reqs, s \in Sessions, input \in SetNameInputs :
       SetNameRequest(r, s, input)
  \/ \E r \in Reqs : SetNameQuery(r)
  \/ \E r \in Reqs, route \in {"add", "remove"}, s \in Sessions :
       TallyRequest(r, route, s)
  \/ \E r \in Reqs : TallyLookupUser(r)
  \/ \E r \in Reqs : AddInsert(r)
  \/ \E r \in Reqs : RemoveDelete(r)

SpecServer == InitServer /\ [][NextServer]_vars

\* Joins over any membership table: a database with any of the membership
\* tables above (rows that were deactivated among them), a server at rest,
\* one POST /join-room with a code the clients use, and the roster query.
InitRejoin ==
  /\ InitQueries
  /\ room_messages = <<>>

NextRejoin ==
  \/ \E s \in Sessions, code \in CodeInputs : PostRequest("r1", "join-room", s, code)
  \/ \E r \in Reqs : PostLookupUser(r)
  \/ \E r \in Reqs : PostJoinSelectRoom(r)
  \/ \E r \in Reqs : PostJoinSelectExisting(r)
  \/ \E r \in Reqs : PostJoinInsert(r)
  \/ \E r \in Reqs : PostJoinUpdate(r)
  \/ \E roomId \in {1, 2} : QueryParticipants(roomId)

SpecRejoin == InitRejoin /\ [][NextRejoin]_vars


\* The rooms of the HTTP routes: the database an earlier run left, with the
\* room Q7K2P9 of user 1, a room that was deactivated by hand and in which
\* user 2 has an inactive row, and with or without the default room; the
\* server has just started, so the migration is still to run.
InitRooms ==
  /\ users = { [id |-> 1, session_id |-> "s1", name |-> "Alice"],
               [id |-> 2, session_id |-> "s2", name |-> "Bob"] }
  /\ \E withDefault \in BOOLEAN :
       rooms =
         << [id |-> 1, room_code |-> Q7K2P9, is_active |-> TRUE, creator_id |-> 1],
            [id |-> 2, room_code |-> OLD001, is_active |-> FALSE, creator_id |-> 2] >>
         \o (IF withDefault
             THEN << [id |-> 3, room_code |-> BEER01, is_active |-> TRUE,
                      creator_id |-> 1] >>
             ELSE <<>>)
  /\ room_participants =
       << [room_id |-> 1, user_id |-> 1, is_active |-> TRUE, joined_at |-> 1],
          [room_id |-> 2, user_id |-> 2, is_active |-> FALSE, joined_at |-> 2] >>
  /\ room_messages = <<>>
  /\ InitSockets
  /\ session = [s \in Sessions |->
                  [userId |-> getOrCreateUser(s).id, message |-> "", error |-> ""]]
  /\ http = [r \in Reqs |-> NoRequest]
  /\ migration = "check"
  /\ query = NoQuery
  /\ beer_entries = <<>>
  /\ beer_entries_id_seq = 0
  /\ schema = Relations
  /\ user_type = [id \in {u.id : u \in users} |-> "participant"]
  /\ room_id = [id \in {u.id : u \in users} |->
                  IF \E i \in DOMAIN rooms : rooms[i].room_code = BEER01
                  THEN rooms[CHOOSE i \in DOMAIN rooms : rooms[i].room_code = BEER01].id
                  ELSE 0]
  /\ dbConnected = FALSE
  /\ leaderboard = NoLeaderboard

NextRooms ==
  \/ \E r \in Reqs, s \in Sessions, name \in RoomNameInputs :
       PostRequest(r, "create-room", s, name)
  \/ \E r \in Reqs, s \in Sessions, code \in RoomCodeInputs :
       PostRequest(r, "join-room", s, code)
  \/ \E r \in Reqs : PostLookupUser(r)
  \/ \E r \in Reqs : CreateRoomCheck(r)
  \/ \E r \in Reqs : CreateRoomInsert(r)
  \/ \E r \in Reqs : CreateRoomMember(r)
  \/ \E r \in Reqs : PostJoinSelectRoom(r)
  \/ \E r \in Reqs : PostJoinSelectExisting(r)
  \/ \E r \in Reqs : PostJoinInsert(r)
  \/ \E r \in Reqs : PostJoinUpdate(r)
  \/ MigrationCheck
  \/ MigrationInsert
  \/ MigrationUsers

SpecRooms == InitRooms /\ [][NextRooms]_vars

\* The startup over any database: no user, or some of three users; no room,
\* the default room, a room of a user, or both; every user in no room (NULL)
\* or in one of the rooms.  The server has just been started.
StartupUsers ==
  { [id |-> 1, session_id |-> "s1", name |-> "Alice"],
    [id |-> 2, session_id |-> "s2", name |-> "Bob"],
    [id |-> 3, session_id |-> "s3", name |-> "Carol"] }

\* the rooms tables with these codes, each room created by one of the users
RECURSIVE StartupRooms(_, _)
StartupRooms(codes, creators) ==
  IF codes = <<>> THEN { <<>> }
  ELSE { Append(t, [id |-> Len(t) + 1, room_code |-> codes[Len(codes)],
                    is_active |-> TRUE, creator_id |-> c]) :
           t \in StartupRooms(SubSeq(codes, 1, Len(codes) - 1), creators),
           c \in creators }

InitStartup ==
  /\ users \in SUBSET StartupUsers
  /\ rooms \in UNION { StartupRooms(codes, {u.id : u \in users}) :
                         codes \in { <<>>, << BEER01 >>, << Q7K2P9 >>,
                                     << Q7K2P9, BEER01 >> } }
  /\ room_participants = <<>>
  /\ room_messages = <<>>
  /\ InitSockets
  /\ session = [s \in Sessions |->
                  [userId |-> getOrCreateUser(s).id, message |-> "", error |-> ""]]
  /\ http = [r \in Reqs |-> NoRequest]
  /\ migration = "check"
  /\ query = NoQuery
  /\ beer_entries = <<>>
  /\ beer_entries_id_seq = 0
  /\ schema = Relations
  /\ user_type = [id \in {u.id : u \in users} |-> "participant"]
  /\ room_id \in [{u.id : u \in users} -> {0} \cup {rooms[i].id : i \in DOMAIN rooms}]
  /\ dbConnected = FALSE
  /\ leaderboard = NoLeaderboard

NextStartup ==
  \/ MigrationCheck
  \/ MigrationInsert
  \/ MigrationUsers
  \/ Restart

SpecStartup == InitStartup /\ [][NextStartup]_vars

----------------------------------------------------------------------------
(* Vocabulary of the properties *)

UserIds == {u.id : u \in users}

RoomIds == {rooms[i].id : i \in DOMAIN rooms}

RoomById(roomId) == rooms[CHOOSE i \in DOMAIN rooms : rooms[i].id = roomId]

\* the rows of the membership table for one (room, user) pair
MemberRows(roomId, userId) ==
  {i \in DOMAIN room_participants :
     room_participants[i].room_id = roomId /\ room_participants[i].user_id = userId}

ActiveMember(table, roomId, userId) ==
  \E i \in DOMAIN table :
    table[i].room_id = roomId /\ table[i].user_id = userId /\ table[i].is_active

RosterIds(participants) == {participants[i].id : i \in DOMAIN participants}

\* the events a step delivers to a connection
NewEvents(a) == SubSeq(inbox'[a], Len(inbox[a]) + 1, Len(inbox'[a]))

Types(events) == [i \in DOMAIN events |-> events[i].type]

\* joinRoom of the handler of c has returned its room
JoinedRoom(c) == jpc[c] \in {"messages", "participants", "updated"}

----------------------------------------------------------------------------
(* C1: joins of one user to one room, in any order and interleaving, leave  *)
(* exactly one row for the (room, user) pair, and it is active: no pair has *)
(* two rows, a pair whose join has returned has one active row, and the     *)
(* UPDATE of a join on an active row leaves the table as it is.             *)

----------------------------------------------------------------------------
(* C2: when the disconnect handler of a socket that joined a room has       *)
(* finished, the membership row of its (room, user) pair is still there and *)
(* is inactive.                                                             *)

C2_DisconnectLeaves ==
  [][\A c \in Conns :
       (dpc[c] = "participants" /\ dpc'[c] = "done") =>
         /\ MemberRows(droomId[c], socketUserId[c]) # {}
         /\ ~ActiveMember(room_participants', droomId[c], socketUserId[c])]_vars

----------------------------------------------------------------------------
(* C3: when the socket of user B closes in a room where the socket of user  *)
(* A is open, A gets user-left for B and after it participants-updated with *)
(* a roster that holds A and not B; the closed socket gets neither.         *)

\* a has got user-left of the closing socket b
GotUserLeft(a, b) ==
  \E i \in DOMAIN inbox[a] :
    /\ inbox[a][i].type = "user-left"
    /\ inbox[a][i].src = b
    /\ inbox[a][i].user = socketUserId[b]

C3_LeftThenRoster ==
  [][\A b \in Conns :
       /\ (status[b] = "authed" /\ status'[b] = "closed" /\ socketRoomCode[b] # <<>>) =>
            /\ inbox'[b] = inbox[b]
            /\ \A a \in InRoom(status, socketRooms, socketRoomCode[b]) \ {b} :
                 /\ Types(NewEvents(a)) = << "user-left" >>
                 /\ NewEvents(a)[1].user = socketUserId[b]
       /\ (dpc[b] = "participants" /\ dpc'[b] = "done" /\ nfail' = nfail) =>
            /\ inbox'[b] = inbox[b]
            /\ \A a \in Conns \ {b} :
                 (/\ Connected(status, a)
                  /\ GotUserLeft(a, b)
                  /\ socketUserId[a] # socketUserId[b]) =>
                   /\ Types(NewEvents(a)) = << "participants-updated" >>
                   /\ socketUserId[a] \in RosterIds(NewEvents(a)[1].participants)
                   /\ socketUserId[b] \notin RosterIds(NewEvents(a)[1].participants)]_vars

----------------------------------------------------------------------------
(* C4: a send-message whose body is empty after trimming or longer than 500 *)
(* characters adds no row to the message log and causes no new-message      *)
(* event: every stored and every broadcast body is valid.                   *)

ValidBody(b) == BodyLength(BodyTrim(b)) > 0 /\ BodyLength(b) <= MaxMessageLength

C4_InvalidBodyRejected ==
  /\ \A i \in DOMAIN room_messages : ValidBody(room_messages[i].message)
  /\ \A c \in Conns : \A i \in DOMAIN inbox[c] :
       inbox[c][i].type = "new-message" => ValidBody(inbox[c][i].message.message)

----------------------------------------------------------------------------
(* C5: an accepted send-message is stored in the log of its room first and  *)
(* then broadcast as new-message to every socket in the group of that room, *)
(* the sender's too; no new-message is emitted for a message that is not in *)
(* the log.                                                                 *)

Persisted(payload) ==
  \E k \in DOMAIN room_messages :
    /\ room_messages[k].id = payload.id
    /\ room_messages[k].message = payload.message
    /\ room_messages[k].user_id = payload.user_id

----------------------------------------------------------------------------
(* C6: a successful join-room looks the room up, joins the membership,      *)
(* subscribes the socket, emits room-joined to the requester, user-joined   *)
(* to the others and participants-updated to the group, in this order: the *)
(* joiner has room-joined before the participants-updated of its own join,  *)
(* and the roster of room-joined holds the joiner.                          *)

C6_JoinOrder ==
  /\ [](\A c \in Conns : \A i \in DOMAIN inbox[c] :
          /\ (inbox[c][i].type = "participants-updated" /\ inbox[c][i].src = c) =>
               \E j \in 1 .. (i - 1) :
                 /\ inbox[c][j].type = "room-joined"
                 /\ inbox[c][j].room.room_code = inbox[c][i].to
          /\ inbox[c][i].type = "room-joined" =>
               /\ socketUserId[c] \in RosterIds(inbox[c][i].participants)
               /\ inbox[c][i].room.room_code \in socketRooms[c] \/ ~Connected(status, c))
  /\ [][\A c \in Conns :
          \* the subscription: the room was looked up and the membership joined
          /\ ~(socketRooms'[c] \subseteq socketRooms[c]) =>
               /\ Len(SelectActiveRoom(toUpperCase(jarg[c]))) # 0
               /\ jroom[c] = SelectActiveRoom(toUpperCase(jarg[c]))[1]
               /\ ActiveMember(room_participants', jroom[c].id, socketUserId[c])
               /\ socketRooms'[c] = socketRooms[c] \cup {jroom[c].room_code}
               /\ \A a \in Conns : NewEvents(a) = <<>>
          \* room-joined to the subscribed requester, with user-joined to others
          /\ (jpc[c] = "participants" /\ jpc'[c] = "updated") =>
               /\ ActiveMember(room_participants, jroom[c].id, socketUserId[c])
               /\ Connected(status, c) =>
                    /\ jroom[c].room_code \in socketRooms[c]
                    /\ Types(NewEvents(c)) = << "room-joined" >>
               /\ \A a \in Conns \ {c} :
                    Types(NewEvents(a)) \in { <<>>, << "user-joined" >> }
          \* participants-updated ends the handler
          /\ (jpc[c] = "updated" /\ jpc'[c] = "idle" /\ nfail' = nfail) =>
               \A a \in Conns :
                 Types(NewEvents(a)) \in { <<>>, << "participants-updated" >> }]_vars

\* a socket has room-joined and, later, the participants-updated of its join
C6_Witness ==
  \E c \in Conns : \E i, j \in DOMAIN inbox[c] :
    /\ i < j
    /\ inbox[c][i].type = "room-joined"
    /\ inbox[c][j].type = "participants-updated"
    /\ inbox[c][j].src = c
    /\ Len(inbox[c][i].participants) > 1

----------------------------------------------------------------------------
(* C7: on a successful join of room R by user B, whatever the letter case   *)
(* of the code, user-joined goes to every other socket in the group of R    *)
(* and not to the joining socket, and the participants-updated that follows *)
(* goes to every socket in the group, the joining one too, with a roster    *)
(* that holds B.                                                            *)

C7_JoinFanOut ==
  [][\A c \in Conns :
       /\ (jpc[c] = "participants" /\ jpc'[c] = "updated") =>
            \A a \in Conns :
              IF a # c /\ a \in InRoom(status, socketRooms, jroom[c].room_code)
              THEN /\ Types(NewEvents(a)) = << "user-joined" >>
                   /\ NewEvents(a)[1].user = socketUserId[c]
              ELSE \A i \in DOMAIN NewEvents(a) : NewEvents(a)[i].type # "user-joined"
       /\ (jpc[c] = "updated" /\ jpc'[c] = "idle" /\ nfail' = nfail) =>
            /\ Connected(status, c) =>
                 c \in InRoom(status, socketRooms, jroom[c].room_code)
            /\ \A a \in InRoom(status, socketRooms, jroom[c].room_code) :
                 /\ Types(NewEvents(a)) = << "participants-updated" >>
                 /\ socketUserId[c] \in RosterIds(NewEvents(a)[1].participants)]_vars

\* user 2 joined BEER01 with the code in lower case: the other socket has
\* user-joined and then the roster with user 2, the joining socket the roster
C7_Witness ==
  \E a, c \in Conns : \E i, j \in DOMAIN inbox[a] : \E k \in DOMAIN inbox[c] :
    /\ a # c /\ i < j
    /\ inbox[a][i].type = "user-joined" /\ inbox[a][i].src = c
    /\ inbox[a][i].to = BEER01
    /\ inbox[a][j].type = "participants-updated" /\ inbox[a][j].src = c
    /\ socketUserId[c] \in RosterIds(inbox[a][j].participants)
    /\ inbox[c][k] = inbox[a][j]
    /\ \A n \in DOMAIN inbox[c] : inbox[c][n].type # "user-joined"

----------------------------------------------------------------------------
(* C8: failing requests *)

\* the step ends the join-room handler of c in its catch branch
JoinFails(c) ==
  /\ jpc[c] # "idle" /\ jpc'[c] = "idle"
  /\ ~(jpc[c] = "updated" /\ nfail' = nfail)

\* the step ends the send-message handler of c in its catch branch
SendFails(c) ==
  /\ spc[c] # "idle" /\ spc'[c] = "idle"
  /\ ~(spc[c] = "name" /\ nfail' = nfail)

\* the step emits one error event, to c if its socket is open, and nothing else
ErrorToRequesterOnly(c) ==
  /\ \A a \in Conns \ {c} : inbox'[a] = inbox[a]
  /\ IF Connected(status, c)
     THEN Types(NewEvents(c)) = << "error" >>
     ELSE inbox'[c] = inbox[c]
  /\ status' = status
  /\ UNCHANGED << dbVars, socketVars >>

(* C8: a join-room or send-message that fails (no active room               *)
(* for the code, a failed query) emits error to the requester only, keeps   *)
(* the socket open with its room state, and the handler has changed neither *)
(* the membership nor the message table.                                    *)
C8_FailureChangesNothing ==
  [][\A c \in Conns :
       /\ JoinFails(c) => ErrorToRequesterOnly(c) /\ ~jeffect[c]
       /\ SendFails(c) => ErrorToRequesterOnly(c) /\ ssaved[c] = NoMessage]_vars

----------------------------------------------------------------------------
(* C9: a socket whose session resolves to no user is disconnected at once;  *)
(* it never is authenticated, none of its requests is processed, it joins   *)
(* no group, and no event and no message comes from it.                     *)

C9_NoUserNoSocket ==
  \A c \in Conns :
    (/\ status[c] # "new"
     /\ \/ session[csession[c]].userId = 0
        \/ getOrCreateUser(csession[c]) = NoUser) =>
      /\ status[c] = "rejected"
      /\ socketUserId[c] = 0
      /\ jpc[c] = "idle" /\ spc[c] = "idle" /\ dpc[c] = "idle"
      /\ socketRoomId[c] = 0 /\ socketRooms[c] = {}
      /\ inbox[c] = <<>>
      /\ \A a \in Conns : \A i \in DOMAIN inbox[a] : inbox[a][i].src # c

\* the socket of the new visitor is rejected while another socket is in a room
C9_Witness ==
  \E a, c \in Conns :
    /\ status[c] = "rejected" /\ csession[c] = "s3"
    /\ status[a] = "authed" /\ socketRoomId[a] # 0

----------------------------------------------------------------------------
(* C10: the identity resolver gives every session a user: once /set-name    *)
(* has handled a non-empty name for a session, the session has a user row   *)
(* and carries its id.                                                      *)

C10_SetNameCreatesUser ==
  \A s \in Sessions :
    (session[s].message # "" \/ session[s].error # "") =>
      /\ getOrCreateUser(s) # NoUser
      /\ session[s].userId = getOrCreateUser(s).id

----------------------------------------------------------------------------
(* Vocabulary of the properties of the routes *)

\* the lower-case letter of an upper-case one
LowerChar(ch) ==
  IF \E i \in DOMAIN Uppers : Uppers[i] = ch
  THEN Lowers[CHOOSE i \in DOMAIN Uppers : Uppers[i] = ch]
  ELSE ch

\* a code as a user may type it: as it is, in lower case, in mixed case
CaseVariants(code) ==
  { code,
    [i \in DOMAIN code |-> LowerChar(code[i])],
    [i \in DOMAIN code |-> IF i % 2 = 1 THEN LowerChar(code[i]) ELSE code[i]] }

\* createRoom of request r has returned its room
Created(r) ==
  http[r].route = "create-room" /\ http[r].pc = "done" /\ http[r].room # NoRoom

\* request r takes a step in which no query fails
RouteStep(r) == http'[r] # http[r] /\ nfail' = nfail

----------------------------------------------------------------------------
(* C11: the room createRoom returns has a code of exactly 6 characters of   *)
(* A-Z0-9, and the lookup of joinRoom with that code in upper, lower or     *)
(* mixed case gives that room.                                              *)

C11_CodeFormatAndLookup ==
  \A r \in Reqs :
    Created(r) =>
      LET room == http[r].room
      IN  /\ Len(room.room_code) = 6
          /\ \A i \in DOMAIN room.room_code :
               \E k \in DOMAIN chars : chars[k] = room.room_code[i]
          /\ \A v \in CaseVariants(room.room_code) :
               SelectActiveRoom(toUpperCase(v)) = << room >>

\* a room has been created and another request has joined it with its code in
\* mixed case
C11_Witness ==
  \E r, q \in Reqs :
    /\ Created(r)
    /\ http[q].route = "join-room" /\ http[q].pc = "done"
    /\ http[q].room = http[r].room
    /\ http[q].input # http[r].room.room_code

----------------------------------------------------------------------------
(* C12: no two rooms, active or not, have the same code, however the calls  *)
(* of createRoom and the migration of the default room interleave.          *)

C12_UniqueCodes ==
  \A i, j \in DOMAIN rooms :
    i # j => rooms[i].room_code # rooms[j].room_code

\* a createRoom has passed its existence check and lost the insert against
\* the insert of another call or of the migration
C12_Witness ==
  \E r \in Reqs :
    /\ http[r].route = "create-room"
    /\ http[r].error = "duplicate key"
    /\ \E i \in DOMAIN rooms : i > 2 /\ rooms[i].room_code = http[r].roomCode

----------------------------------------------------------------------------
(* C13: a createRoom whose candidate passed the existence check and was     *)
(* inserted by another call before its own insert loses the race and goes   *)
(* on in its loop: it counts one more attempt and tests a new code.         *)

C13_RaceAbsorbed ==
  [][\A r \in Reqs :
       (/\ http[r].pc = "insert" /\ RouteStep(r)
        /\ ~UniqueRoomCode(http[r].roomCode)) =>
         /\ http'[r].pc = "check"
         /\ http'[r].attempts = http[r].attempts + 1]_vars

----------------------------------------------------------------------------
(* C14: createRoom tests at most 10 codes.  An unused code ends the loop    *)
(* and is the one inserted; a used one leads to the next attempt, and the   *)
(* tenth used one to the error, with no row inserted by the call.           *)

C14_AtMostTenCandidates ==
  /\ [](\A r \in Reqs : http[r].checks <= 10 /\ http[r].attempts <= 10)
  /\ [][\A r \in Reqs :
          (http[r].pc = "check" /\ RouteStep(r)) =>
            IF \A i \in DOMAIN rooms : rooms[i].room_code # http[r].roomCode
            THEN /\ http'[r].pc = "insert"
                 /\ http'[r].roomCode = http[r].roomCode
            ELSE IF http[r].attempts < 10
            THEN /\ http'[r].pc = "check"
                 /\ http'[r].attempts = http[r].attempts + 1
            ELSE /\ http'[r].pc = "failed"
                 /\ http'[r].error = "Failed to generate unique room code"
                 /\ http'[r].inserted = NoRequest.inserted
                 /\ rooms' = rooms /\ room_participants' = room_participants]_vars

\* a call has given up after ten used codes
C14_Witness ==
  \E r \in Reqs :
    /\ http[r].error = "Failed to generate unique room code"
    /\ http[r].checks = 10
    /\ http[r].pc = "failed"

----------------------------------------------------------------------------
(* C15: a createRoom that returns has inserted exactly one row, the room    *)
(* with its flag true, and no row of another table.                         *)

----------------------------------------------------------------------------
(* C16: every connection gets the new-message events of a room in the order *)
(* in which the messages were stored (the order of their ids and creation   *)
(* times, which is the order of a history replay), also when send-message   *)
(* handlers interleave at their queries.                                    *)

\* the ids of the messages of the new-message events of a connection (of
\* the messages with a valid body)
LiveOrder(c) ==
  LET news == SelectSeq(inbox[c], LAMBDA e : /\ e.type = "new-message"
                                             /\ ValidBody(e.message.message))
  IN  [i \in DOMAIN news |-> news[i].message.id]

C16_BroadcastInStoredOrder ==
  \A c \in Conns :
    \A i, j \in DOMAIN LiveOrder(c) :
      i < j => LiveOrder(c)[i] < LiveOrder(c)[j]

----------------------------------------------------------------------------
(* C17: an open connection is in the broadcast group of at most one room,   *)
(* whatever join-room requests it has made, and the events of a group that  *)
(* it gets are those of the room it is in.                                  *)

C17_OneRoomPerConnection ==
  /\ [](\A c \in Conns :
          Connected(status, c) => Cardinality(socketRooms[c]) <= 1)
  /\ [][\A c \in Conns : \A i \in DOMAIN NewEvents(c) :
          NewEvents(c)[i].to \in {<<>>, socketRoomCode'[c]}]_vars

----------------------------------------------------------------------------
(* C18: getRoomMessages(room, limit) returns at most limit messages, all of *)
(* that room and each once; they are the limit most recently created ones   *)
(* (all of them when the room has fewer) and are listed oldest first.       *)

C18_RecentHistory ==
  query.fn = "getRoomMessages" =>
    LET res   == query.rows
        all   == {room_messages[i] : i \in {k \in DOMAIN room_messages :
                                              room_messages[k].room_id = query.roomId}}
        got   == {res[i] : i \in DOMAIN res}
    IN  /\ Len(res) <= query.limit
        /\ Len(res) = IF Cardinality(all) < query.limit
                      THEN Cardinality(all) ELSE query.limit
        /\ got \subseteq all
        /\ Cardinality(got) = Len(res)
        /\ \A m \in all \ got : \A g \in got : m.created_at <= g.created_at
        /\ \A i, j \in DOMAIN res : i < j => res[i].created_at <= res[j].created_at

\* a history of HistoryLimit messages has been cut from a longer log
C18_Witness ==
  /\ query.fn = "getRoomMessages"
  /\ query.limit = HistoryLimit
  /\ Len(query.rows) = HistoryLimit
  /\ Cardinality({i \in DOMAIN room_messages :
                    room_messages[i].room_id = query.roomId}) > HistoryLimit

----------------------------------------------------------------------------
(* C19: getRoomParticipants(room) returns exactly the users with an active  *)
(* row in the room, each once, by ascending join time, and two calls with   *)
(* no change of the table in between return the same sequence, also when    *)
(* members have equal join times.                                           *)

C19_StableRoster ==
  /\ [](query.fn = "getRoomParticipants" =>
          LET res == query.rows
              joined(userId) ==
                (CHOOSE p \in {room_participants[i] : i \in DOMAIN room_participants} :
                   p.room_id = query.roomId /\ p.user_id = userId).joined_at
          IN  /\ RosterIds(res) =
                   {u \in UserIds : ActiveMember(room_participants, query.roomId, u)}
              /\ Cardinality(RosterIds(res)) = Len(res)
              /\ \A i, j \in DOMAIN res :
                   i < j => joined(res[i].id) <= joined(res[j].id))
  /\ [][(/\ query.fn = "getRoomParticipants"
         /\ query'.fn = "getRoomParticipants"
         /\ query'.roomId = query.roomId
         /\ room_participants' = room_participants) =>
          query'.rows = query.rows]_vars

----------------------------------------------------------------------------
(* C20: a join with a code that matches no room, or only a deactivated one, *)
(* fails with "Room not found" and creates or reactivates no membership; a  *)
(* join with the code of an active room passes the lookup for every user,   *)
(* with no further check, and leaves the user an active member of the room. *)

C20_CodeIsTheOnlyCheck ==
  /\ [][\A r \in Reqs :
          (http[r].pc = "room" /\ RouteStep(r)) =>
            IF \E i \in DOMAIN rooms :
                 rooms[i].is_active /\ rooms[i].room_code = toUpperCase(http[r].roomCode)
            THEN /\ http'[r].pc = "existing"
                 /\ http'[r].room.is_active
                 /\ http'[r].room.room_code = toUpperCase(http[r].roomCode)
                 /\ http'[r].error = ""
            ELSE /\ http'[r].pc = "failed"
                 /\ http'[r].error = "Room not found"
                 /\ session'[http[r].sessionId].error = "Room not found"
                 /\ room_participants' = room_participants]_vars
  /\ [][\A r \in Reqs :
          (/\ http[r].pc \in {"existing", "join-insert", "join-update"}
           /\ RouteStep(r)) =>
            \/ http'[r].pc \in {"join-insert", "join-update"}
            \/ ActiveMember(room_participants', http[r].room.id, http[r].userId)]_vars

\* Bob has joined the room of Alice with its code, and his join with the code
\* of the deactivated room has failed and left his inactive row there as it was
C20_Witness ==
  \E r, q \in Reqs :
    /\ http[r].route = "join-room" /\ http[r].pc = "done"
    /\ http[r].userId = 2 /\ http[r].room.creator_id = 1
    /\ ActiveMember(room_participants, http[r].room.id, 2)
    /\ http[q].route = "join-room" /\ http[q].pc = "failed"
    /\ http[q].userId = 2 /\ http[q].error = "Room not found"
    /\ toUpperCase(http[q].roomCode) = OLD001
    /\ ~ActiveMember(room_participants, 2, 2)

----------------------------------------------------------------------------
(* Vocabulary of the properties of the membership *)

\* joinRoom of request r has returned its room
Joined(r) ==
  http[r].route = "join-room" /\ http[r].pc = "done" /\ http[r].room # NoRoom

\* the (room, user) pairs that have a row in the table
Pairs(table) == { <<table[i].room_id, table[i].user_id>> : i \in DOMAIN table }

\* the step keeps every row of the table, at most with another flag
RowsKept ==
  \A i \in DOMAIN room_participants :
    \E j \in DOMAIN room_participants' :
      /\ room_participants'[j].room_id = room_participants[i].room_id
      /\ room_participants'[j].user_id = room_participants[i].user_id
      /\ room_participants'[j].joined_at = room_participants[i].joined_at

\* joinRoom of request r returns its room for the pair p in this step
JoinReturns(r, p) ==
  /\ ~Joined(r)
  /\ http'[r].route = "join-room" /\ http'[r].pc = "done" /\ http'[r].room # NoRoom
  /\ p = <<http'[r].room.id, http'[r].userId>>

\* createRoom of request r returns the room of the pair p in this step
CreateReturns(r, p) ==
  /\ ~Created(r)
  /\ http'[r].route = "create-room" /\ http'[r].pc = "done" /\ http'[r].room # NoRoom
  /\ p = <<http'[r].room.id, http'[r].userId>>

----------------------------------------------------------------------------
(* C21: a membership row exists for a (room, user) pair if and only if the  *)
(* user has joined the room: a returned join has its row, a row appears     *)
(* only in the step in which a join of its pair returns, and no step        *)
(* removes a row.                                                           *)

----------------------------------------------------------------------------
(* C22: the message log of every room is append-only: a stored message      *)
(* keeps its room, author, body and creation time and is never removed, so  *)
(* every step leaves the log of the step before as a prefix of the log.     *)

\* the message log of a room
RoomLog(table, roomId) == SelectSeq(table, LAMBDA m : m.room_id = roomId)

IsPrefix(s, t) == Len(s) <= Len(t) /\ SubSeq(t, 1, Len(s)) = s

C22_AppendOnlyLog ==
  [][/\ IsPrefix(room_messages, room_messages')
     /\ \A r \in RoomIds :
          IsPrefix(RoomLog(room_messages, r), RoomLog(room_messages', r))]_vars

\* a room has a log of two messages, the second stored after the first had
\* been broadcast
C22_Witness ==
  \E r \in RoomIds :
    /\ Len(RoomLog(room_messages, r)) >= 2
    /\ \E c \in Conns : \E i \in DOMAIN inbox[c] :
         /\ inbox[c][i].type = "new-message"
         /\ inbox[c][i].message.id = RoomLog(room_messages, r)[1].id

----------------------------------------------------------------------------
(* C23: no message of a room is lost to a connection that has joined it:    *)
(* when no query has failed, an open connection that has got room-joined    *)
(* for a room has every stored message of the room, once the handler that   *)
(* stored it has finished, in the history of that room-joined or as a       *)
(* new-message event.                                                       *)

\* the send-message handler that stored the row has not reached its broadcast
Pending(m) == \E c \in Conns : spc[c] = "name" /\ ssaved[c].id = m.id

\* the connection has the message in the history of a room-joined event
InHistory(a, m) ==
  \E i \in DOMAIN inbox[a] :
    /\ inbox[a][i].type = "room-joined"
    /\ \E h \in DOMAIN inbox[a][i].messages : inbox[a][i].messages[h].id = m.id

\* the connection has got the message as a new-message event
GotLive(a, m) ==
  \E j \in DOMAIN inbox[a] :
    inbox[a][j].type = "new-message" /\ inbox[a][j].message.id = m.id

C23_NoMessageLost ==
  nfail = 0 =>
    \A a \in Conns : \A i \in DOMAIN inbox[a] :
      (Connected(status, a) /\ inbox[a][i].type = "room-joined") =>
        \A k \in DOMAIN room_messages :
          (/\ room_messages[k].room_id = inbox[a][i].room.id
           /\ ~Pending(room_messages[k])) =>
            InHistory(a, room_messages[k]) \/ GotLive(a, room_messages[k])

----------------------------------------------------------------------------
(* C24: a send-message on an authenticated connection that has joined no    *)
(* room is answered with an error event to the sender; nothing is stored    *)
(* and no other connection gets an event.                                   *)

\* the step takes a send-message of a socket without a room: it counts the
\* request, starts no handler and closes no socket
SendWithoutRoom ==
  nreq' = nreq + 1 /\ jpc' = jpc /\ spc' = spc /\ status' = status

C24_SendWithoutRoomIsAnError ==
  [][SendWithoutRoom =>
       /\ room_messages' = room_messages
       /\ \E c \in Conns :
            /\ status[c] = "authed" /\ socketRoomId[c] = 0
            /\ Types(NewEvents(c)) = << "error" >>
            /\ \A a \in Conns \ {c} : NewEvents(a) = <<>>]_vars

----------------------------------------------------------------------------
(* C29: when the joins of one user to one room overlap, so that both have   *)
(* read 'no membership row' before either inserts, both joins return their  *)
(* room and neither reports an error: of two requests that join one user   *)
(* to one room, with no query failing, none ends in its catch branch.       *)

C29_OverlappingJoinsSucceed ==
  \A r, q \in Reqs :
    (/\ r # q
     /\ http[r].route = "join-room" /\ http[q].route = "join-room"
     /\ http[r].userId # 0 /\ http[r].userId = http[q].userId
     /\ http[r].room # NoRoom /\ http[r].room = http[q].room
     /\ nfail = 0) =>
      /\ http[r].pc # "failed" /\ http[r].error = ""
      /\ session[http[r].sessionId].error = ""

----------------------------------------------------------------------------
(* C30: rejoining a room keeps the original join time.  The UPDATE of a     *)
(* join on an existing row sets the flag of that row and changes nothing    *)
(* else, no step changes the joined_at of a row, and every roster of the    *)
(* room after the rejoin lists the user after the members that joined       *)
(* before and before the members that joined after the user's first join.   *)

\* joined_at of the row of a pair in the table
JoinedAt(table, roomId, userId) ==
  table[CHOOSE i \in DOMAIN table :
          table[i].room_id = roomId /\ table[i].user_id = userId].joined_at

\* the place of a user in a roster
Place(roster, userId) == CHOOSE i \in DOMAIN roster : roster[i].id = userId

C30_RejoinKeepsJoinTime ==
  [][/\ RowsKept
     /\ \A r \in Reqs :
          (http[r].pc = "join-update" /\ RouteStep(r)) =>
            LET roomId == http[r].room.id
                userId == http[r].userId
            IN  /\ DOMAIN room_participants' = DOMAIN room_participants
                /\ \A i \in DOMAIN room_participants :
                     room_participants'[i] =
                       IF /\ room_participants[i].room_id = roomId
                          /\ room_participants[i].user_id = userId
                       THEN [room_participants[i] EXCEPT !.is_active = TRUE]
                       ELSE room_participants[i]
                /\ \A roster \in getRoomParticipantsRows(roomId)' :
                     /\ userId \in RosterIds(roster)
                     /\ \A m \in RosterIds(roster) \ {userId} :
                          LET mine   == JoinedAt(room_participants, roomId, userId)
                              theirs == JoinedAt(room_participants, roomId, m)
                          IN  /\ theirs < mine => Place(roster, m) < Place(roster, userId)
                              /\ mine < theirs => Place(roster, userId) < Place(roster, m)]_vars

\* a user whose row was inactive has rejoined: the roster asked before the
\* join does not hold the user, and the row is active now with a join time
\* before that of another member of the room
C30_Witness ==
  \E r \in Reqs :
    /\ Joined(r)
    /\ query.fn = "getRoomParticipants"
    /\ query.roomId = http[r].room.id
    /\ http[r].userId \notin RosterIds(query.rows)
    /\ ActiveMember(room_participants, http[r].room.id, http[r].userId)
    /\ \E m \in RosterIds(query.rows) :
         JoinedAt(room_participants, http[r].room.id, http[r].userId)
           < JoinedAt(room_participants, http[r].room.id, m)

----------------------------------------------------------------------------
(* C28: when the initialization of the database has finished with no query  *)
(* failing, exactly one room has the code BEER01 and every user has a room  *)
(* assignment, whatever the database held at the start, also with no user;  *)
(* and on a database in that state the initialization changes nothing.      *)

\* one default room, and every user in a room
Migrated ==
  /\ Cardinality({i \in DOMAIN rooms : rooms[i].room_code = BEER01}) = 1
  /\ \A id \in DOMAIN room_id : room_id[id] # 0

C28_MigrationCompletes ==
  /\ []((migration = "done" /\ dbConnected /\ nfail = 0) => Migrated)
  /\ [][Migrated => (rooms' = rooms /\ room_id' = room_id /\ users' = users)]_vars

----------------------------------------------------------------------------
(* C27: getLeaderboard, called with a room id or without one, returns, and  *)
(* in what it returns every user it reports is in exactly one of the two    *)
(* lists: a participant in participants, an observer in observers.          *)

\* the names a list of the leaderboard holds
Listed(list) == {list[i].name : i \in DOMAIN list}

\* the users getLeaderboard reports on: those of the room, or all
Reported(roomId) == {u \in users : roomId = 0 \/ room_id[u.id] = roomId}

C27_EachUserInOneList ==
  (leaderboard.called /\ nfail = 0) =>
    /\ leaderboard.error = ""
    /\ \A u \in Reported(leaderboard.roomId) :
         /\ u.name \in Listed(leaderboard.participants)
              <=> user_type[u.id] = "participant"
         /\ u.name \in Listed(leaderboard.observers)
              <=> user_type[u.id] = "observer"

----------------------------------------------------------------------------
(* C26: the statement of POST /remove deletes exactly one entry, one of the *)
(* caller's that no other entry of the caller is newer than, and nothing    *)
(* when the caller has no entry; the statement of POST /add appends exactly *)
(* one entry of the caller; every other step of the two routes, also for a  *)
(* session without a user, leaves the table as it is.                       *)

\* the entries of a user
EntriesOf(table, userId) ==
  {table[i] : i \in {k \in DOMAIN table : table[k].user_id = userId}}

\* the rows of a table, as a set
Rows(table) == {table[i] : i \in DOMAIN table}

RemoveReturns(r) == http[r].pc = "delete-beer" /\ http'[r].pc = "done"

AddReturns(r) == http[r].pc = "insert-beer" /\ http'[r].pc = "done"

C26_TallyFrame ==
  [][/\ \A r \in Reqs : RemoveReturns(r) =>
         LET mine == EntriesOf(beer_entries, http[r].userId)
         IN  IF mine = {} THEN beer_entries' = beer_entries
             ELSE \E e \in mine :
                    /\ \A o \in mine : o.created_at <= e.created_at
                    /\ Rows(beer_entries') = Rows(beer_entries) \ {e}
                    /\ Len(beer_entries') = Len(beer_entries) - 1
     /\ \A r \in Reqs : AddReturns(r) =>
         /\ Len(beer_entries') = Len(beer_entries) + 1
         /\ SubSeq(beer_entries', 1, Len(beer_entries)) = beer_entries
         /\ beer_entries'[Len(beer_entries')].user_id = http[r].userId
         /\ http[r].userId = getOrCreateUser(http[r].sessionId).id
         /\ \A i \in DOMAIN beer_entries :
              beer_entries[i].id # beer_entries'[Len(beer_entries')].id
     /\ (\A r \in Reqs : ~RemoveReturns(r) /\ ~AddReturns(r))
          => beer_entries' = beer_entries]_vars

\* Alice has added an entry and then removed her newest one again; her older
\* entry and the entry of Bob are still there
C26_Witness ==
  /\ http["r1"].route = "add" /\ http["r1"].pc = "done" /\ http["r1"].userId = 1
  /\ http["r2"].route = "remove" /\ http["r2"].pc = "done" /\ http["r2"].userId = 1
  /\ beer_entries_id_seq = 3
  /\ {e.id : e \in EntriesOf(beer_entries, 1)} = {2}
  /\ {e.id : e \in EntriesOf(beer_entries, 2)} = {1}

----------------------------------------------------------------------------
(* C25: whenever getRoomMessages returns to a join-room handler, every      *)
(* message it returns carries the name its author has in users at that      *)
(* moment, whatever the name was when the message was written.              *)

C25_NameResolvedAtRead ==
  [][\A c \in Conns :
       (jpc[c] = "messages" /\ jpc'[c] = "participants") =>
         \A i \in DOMAIN jmessages'[c] :
           \E u \in users :
             /\ u.id = jmessages'[c][i].user_id
             /\ u.name = jmessages'[c][i].user_name]_vars

\* Bob got a message of Alice live under the name Alice; she changed her name
\* to Al; the history of his next join shows the same message under Al
C25_Witness ==
  \E i, j \in DOMAIN inbox["c2"] :
    /\ i < j
    /\ inbox["c2"][i].type = "new-message"
    /\ inbox["c2"][i].message.user_id = 1
    /\ inbox["c2"][i].message.user_name = "Alice"
    /\ inbox["c2"][j].type = "room-joined"
    /\ \E h \in DOMAIN inbox["c2"][j].messages :
         /\ inbox["c2"][j].messages[h].id = inbox["c2"][i].message.id
         /\ inbox["c2"][j].messages[h].user_name = "Al"
    /\ \E u \in users : u.id = 1 /\ u.name = "Al"

----------------------------------------------------------------------------
(* C31: no step of the server changes a row of rooms, and every row a step  *)
(* adds is active; so the room createRoom has returned is in the table,     *)
(* active, from then on, and the lookup of joinRoom by its code gives it.   *)

C31_RoomsStayActive ==
  /\ [](\A r \in Reqs : Created(r) =>
          \E i \in DOMAIN rooms :
            /\ rooms[i].id = http[r].room.id
            /\ rooms[i].is_active
            /\ SelectActiveRoom(rooms[i].room_code) = << rooms[i] >>)
  /\ [][/\ \A i \in DOMAIN rooms : i \in DOMAIN rooms' /\ rooms'[i] = rooms[i]
        /\ \A i \in DOMAIN rooms' \ DOMAIN rooms : rooms'[i].is_active]_vars

\* a room was created, and a later join by its code in mixed case found it
C31_Witness ==
  /\ Created("r1")
  /\ Joined("r2")
  /\ http["r2"].room.id = http["r1"].room.id
  /\ http["r2"].room.is_active

----------------------------------------------------------------------------
(* C32: in a run in which no query fails, every join-room request on an     *)
(* open socket of a session with a user is answered in the end: the socket  *)
(* gets a room-joined or an error event after the request, also when the    *)
(* request came while the connection handler was awaiting the user lookup.  *)

\* the answers to join-room the client of the socket has got
Answers(c) ==
  Cardinality({i \in DOMAIN inbox[c] :
                 inbox[c][i].src = c /\ inbox[c][i].type \in {"room-joined", "error"}})

\* a join-room request of the socket has no answer yet
Unanswered(c) ==
  jpc[c] \in {"unheard", "room", "existing", "insert", "update", "messages",
              "participants"}

C32_JoinIsAnswered ==
  \A c \in Conns : \A n \in 0..MaxRequests :
    [](( /\ Unanswered(c)
         /\ Answers(c) = n
         /\ getOrCreateUser(csession[c]) # NoUser )
       => <>(Answers(c) > n \/ nfail > 0))

----------------------------------------------------------------------------
(* C33: the join-room handler of a socket does not emit user-joined once    *)
(* the disconnect of the socket has been handled; and when a socket has     *)
(* closed, every open socket that got a user-joined of it has got, later, a *)
(* user-left of it for the same room.                                       *)

\* the handler of c emits room-joined and user-joined in this step
EmitsUserJoined(c) == jpc[c] = "participants" /\ jpc'[c] = "updated"

\* event i of the inbox is followed by a user-left of the same socket and room
LeftAfter(box, i) ==
  \E j \in DOMAIN box :
    /\ j > i
    /\ box[j].type = "user-left"
    /\ box[j].src = box[i].src
    /\ box[j].to = box[i].to

C33_JoinedThenLeft ==
  /\ [][\A c \in Conns : status[c] = "closed" => ~EmitsUserJoined(c)]_vars
  /\ [](\A b \in Conns : \A i \in DOMAIN inbox[b] :
          ( /\ Connected(status, b)
            /\ inbox[b][i].type = "user-joined"
            /\ status[inbox[b][i].src] = "closed" )
          => LeftAfter(inbox[b], i))

----------------------------------------------------------------------------
(* C34: every event of a room in the inbox of a socket is an event of a     *)
(* room the socket has joined: the group it was sent to is one the socket   *)
(* is subscribed to, and a new-message holds a message that is stored in    *)
(* the room of that group, which is a room the socket has joined.           *)

\* the room that holds the message of a new-message event
StoredIn(payload) ==
  RoomById(room_messages[CHOOSE k \in DOMAIN room_messages :
                           room_messages[k].id = payload.id].room_id)

C34_EventsOfJoinedRoomsOnly ==
  \A c \in Conns : \A i \in DOMAIN inbox[c] :
    (Connected(status, c) /\ inbox[c][i].to # <<>>) =>
      /\ inbox[c][i].to \in socketRooms[c]
      /\ inbox[c][i].type = "new-message" =>
           /\ StoredIn(inbox[c][i].message).room_code = inbox[c][i].to
           /\ StoredIn(inbox[c][i].message).room_code \in socketRooms[c]

----------------------------------------------------------------------------
(* C35: no socket gets, after a room-joined event, a new-message event with *)
(* a message that the history of that room-joined event holds already.      *)

C35_MessageSeenOnce ==
  \A c \in Conns : \A i, j \in DOMAIN inbox[c] :
    ( /\ i < j
      /\ inbox[c][i].type = "room-joined"
      /\ inbox[c][j].type = "new-message" )
    => \A h \in DOMAIN inbox[c][i].messages :
         inbox[c][i].messages[h].id # inbox[c][j].message.id

----------------------------------------------------------------------------
(* C36: no two rows of users have the same session.  The statement of       *)
(* /setname, for a session without a user, adds one row with the posted     *)
(* name without the blanks around it, cut to 30 characters; for a session   *)
(* with a user it changes the name of that row and nothing else, and the    *)
(* beer entries stay as they are.  No other step changes users, so a name   *)
(* that is empty after trimming creates and changes nothing.                *)

\* name is the text of the input from its first to its last character that
\* is not a blank, and of at most MaxNameLength characters of it
TrimmedAndCut(input, name) ==
  \E i, j \in DOMAIN input :
    /\ i <= j
    /\ ~IsSpace(input[i]) /\ \A k \in 1..(i - 1) : IsSpace(input[k])
    /\ ~IsSpace(input[j]) /\ \A k \in (j + 1)..Len(input) : IsSpace(input[k])
    /\ name = NameString(SubSeq(input, i,
                                IF j - i + 1 > MaxNameLength
                                THEN i + MaxNameLength - 1 ELSE j))

\* the statement of /setname of request r returns
SetNameReturns(r) == http[r].pc = "upsert" /\ http'[r].pc = "done"

C36_OneUserPerSession ==
  /\ [](\A u, v \in users : (u.session_id = v.session_id \/ u.id = v.id) => u = v)
  /\ [][/\ \A r \in Reqs : SetNameReturns(r) =>
             LET old == getOrCreateUser(http[r].sessionId)
             IN  /\ beer_entries' = beer_entries
                 /\ IF old = NoUser
                    THEN \E u \in users' \ users :
                           /\ users' = users \cup {u}
                           /\ u.session_id = http[r].sessionId
                           /\ TrimmedAndCut(http[r].input, u.name)
                    ELSE \E name \in {u.name : u \in users'} :
                           /\ users' = (users \ {old}) \cup {[old EXCEPT !.name = name]}
                           /\ TrimmedAndCut(http[r].input, name)
        /\ (\A r \in Reqs : ~SetNameReturns(r)) => users' = users]_vars

\* a new visitor has posted a name that is too long and has got a user with
\* its first 30 characters; Alice has changed her name to Al and has kept her
\* beer entry
C36_Witness ==
  /\ http["r1"].route = "setname" /\ http["r1"].pc = "done"
  /\ http["r1"].sessionId = "s3" /\ Len(http["r1"].input) > MaxNameLength
  /\ \E u \in users : u.session_id = "s3" /\ u.id = 3
                       /\ u.name = NameString([i \in 1..MaxNameLength |-> "x"])
  /\ http["r2"].route = "setname" /\ http["r2"].pc = "done"
  /\ http["r2"].sessionId = "s1"
  /\ \E u \in users : u.session_id = "s1" /\ u.id = 1 /\ u.name = "Al"
  /\ \E i \in DOMAIN beer_entries : beer_entries[i].user_id = 1

----------------------------------------------------------------------------
(* C37: while dbConnected is false no step changes users or beer_entries,   *)
(* and a /setname, /add or /remove request that arrives is answered with    *)
(* the redirect without a query.  dbConnected is true only when every table *)
(* and index of initializeDatabase exists.  After a failed statement        *)
(* dbConnected is false and initializeDatabase takes no further step.       *)

C37_NoWritesBeforeInitialized ==
  /\ [](dbConnected => schema = Relations /\ migration = "done")
  /\ [](migration = "failed" => ~dbConnected)
  /\ [][/\ ~dbConnected =>
             /\ users' = users
             /\ beer_entries' = beer_entries
             /\ beer_entries_id_seq' = beer_entries_id_seq
             /\ \A r \in Reqs : http'[r] # http[r] =>
                  /\ http[r].pc = "idle" /\ http'[r].pc = "done"
                  /\ http'[r].redirect = <<"/">> /\ http'[r].error = ""
        /\ migration = "failed" =>
             /\ migration' = "failed" /\ ~dbConnected' /\ schema' = schema]_vars

\* the second statement of initializeDatabase has failed; Alice, who has a
\* user and a beer entry from an earlier run, has posted a name and asked to
\* remove a beer: both requests were redirected and nothing has changed
C37_Witness ==
  /\ migration = "failed" /\ ~dbConnected /\ schema = {"users", "beer_entries"}
  /\ http["r1"].route = "setname" /\ http["r1"].pc = "done"
  /\ http["r1"].sessionId = "s1" /\ http["r1"].input = <<" ", "A", "l">>
  /\ http["r2"].route = "remove" /\ http["r2"].pc = "done"
  /\ http["r2"].sessionId = "s1"
  /\ \E u \in users : u.session_id = "s1" /\ u.name = "Alice"
  /\ \E i \in DOMAIN beer_entries : beer_entries[i].user_id = 1

====
